---- MODULE Spec2Model ----
(***************************************************************************)
(* The index engine of LocalCssSense (src/src/services/cssIndex.ts): the   *)
(* component index, the CSS file cache, the reverse map from CSS files to  *)
(* the components importing them, and the debounced file-watcher           *)
(* dispatch.  The file system is the environment.                          *)
(*                                                                         *)
(* A JavaScript Map is modelled as a function whose DOMAIN is the set of   *)
(* keys present; the insertion-ordered Map ComponentIndex.cssFiles is a    *)
(* sequence of CSSFile records, each carrying its key in filePath.         *)
(* An async method is cut at its awaits (Advance runs indexComponent up to *)
(* its next `await parseCSSFile`, ResumeOn is its continuation); a public  *)
(* operation that runs to completion is every way of resuming the calls it *)
(* has suspended, in any order, until none is left (Outcomes).             *)
(*                                                                         *)
(* The lookups, the path resolver (src/unnamed/part_006) and the two       *)
(* parsers of src/src/services/cssParser.ts are pure functions of their    *)
(* arguments and the disk; each has a specification of its own that calls  *)
(* it once on every input of a bounded set.  A path there is a sequence of *)
(* one-character strings.  The diagnostic and completion providers        *)
(* (src/unnamed/part_008, part_007) are called once on a bounded set of    *)
(* documents in the same way.                                              *)
(*                                                                         *)
(* SpecInterleaved and SpecRace keep the suspended indexComponent calls in *)
(* the variable inflight between steps, so that other operations, and the  *)
(* writes of other processes, run while a call waits for readFile.         *)
(* SpecRedundant lets calls for the same component and paths overlap;      *)
(* SpecFanOut runs updateCSSFile step by step over the Set it iterates;    *)
(* SpecObjects gives the ComponentIndex objects addresses (heap), so that  *)
(* replacing an object and changing it are different things.               *)
(***************************************************************************)
EXTENDS Integers, Sequences, FiniteSets, TLC

\* ------------------------------------------------------------- bounds
\* Number of writes the file system performs after start-up.
MaxWrites == 1
\* Steps of the clock per debounce window.
TicksPerWindow == 2
\* Characters of an import path.
MaxPathLen == 5
\* Import statements of a component file.
MaxImports == 3
\* Rules of a CSS file.
MaxRules == 3
\* Lexemes of a CSS text.
MaxLexemes == 5
\* Class-name words in the attributes of a document.
MaxTokens == 2
\* Lines of a CSS file with media queries.
MaxCssLines == 3
\* indexComponent calls suspended at the same time.
MaxInFlight == 1
\* indexComponent calls for the same component and paths that overlap.
MaxOverlap == 2
\* ComponentIndex objects a caller of getComponentIndex keeps at a time.
MaxHeld == 1

\* ------------------------------------------------------------- constants
\* CSSIndex.DEBOUNCE_DELAY_MS
DEBOUNCE_DELAY_MS == 2000
\* One step of the clock, in ms (rounded up, so that a window is whole steps).
TickMs == (DEBOUNCE_DELAY_MS + TicksPerWindow - 1) \div TicksPerWindow

\* ------------------------------------------------------------- domains
\* Component paths that name a component file, and the empty string.
Components == {"A.tsx", "B.tsx"}
EmptyPath == ""
\* The component file that is open in the editor.
WatchedComponents == {"A.tsx"}
\* Absolute paths of CSS files.
CssPaths == {"f.css", "g.css"}
\* What a CSS file may hold: the class names it defines.
InitialContent == {"a"}
Contents == {{"a"}, {"a", "b"}}
\* Every cssFilePaths argument: the lists over CssPaths, repetitions included,
\* with as many entries as there are CSS files at most.
PathLists == UNION {[1..n -> CssPaths] : n \in 0..Cardinality(CssPaths)}

VARIABLES
  disk,                 \* file system: CSS path -> [exists, mtimeMs, content]
  now,                  \* file-system clock, stamps mtimeMs
  index,                \* CSSIndex.index: componentPath -> ComponentIndex
  fileCache,            \* CSSFileCache.cache: CSS path -> CSSFile
  cssFileToComponents,  \* CSSIndex.cssFileToComponents: CSS path -> set of componentPaths
  parsed,               \* log of the parseCSSFile calls of the last operation
  last,                 \* the last operation: its name, arguments and outcome
  imports,              \* componentPath -> the paths its caller last asked to index
  cssFileChangeTimers,  \* CSSIndex.cssFileChangeTimers: CSS path -> its pending timer
  componentChangeTimers,\* CSSIndex.componentChangeTimers: componentPath -> its pending timer
  scheduled,            \* the timers the runtime holds: set, not yet fired, not cleared
  watch,                \* CSS path -> time since its last change event, updates of its burst
  cancelled,            \* the live timers the last step cleared with clearTimeout
  call,                 \* the arguments a function of the parsers is called with
  ret,                  \* what that call returned, once it has
  waiting,              \* CSS path -> how long its oldest unanswered change event waits
  inflight,             \* the indexComponent calls suspended at an await between operations
  heap                  \* the ComponentIndex objects: where each lives and who refers to it

fsVars == <<disk, now>>
timerVars == <<cssFileChangeTimers, componentChangeTimers, scheduled>>
pureVars == <<call, ret>>
\* What the specifications of the engine and of its timers leave alone.
restVars == <<call, ret, waiting, inflight, heap>>
vars == <<disk, now, index, fileCache, cssFileToComponents, parsed, last, imports,
          cssFileChangeTimers, componentChangeTimers, scheduled, watch, cancelled,
          call, ret, waiting, inflight, heap>>

\* ------------------------------------------------------------- Map helpers
EmptyMap == [x \in {} |-> x]
MapSet(m, k, v) == [x \in DOMAIN m \cup {k} |-> IF x = k THEN v ELSE m[x]]
MapDelete(m, k) == [x \in DOMAIN m \ {k} |-> m[x]]
Range(s) == {s[i] : i \in DOMAIN s}

NoFile == [exists |-> FALSE, mtimeMs |-> 0, content |-> {}]
\* The heap before any ComponentIndex is constructed.
NoObjects == [objects |-> EmptyMap, entry |-> EmptyMap, held |-> {}]

\* ------------------------------------------------------------- models
\* CSSParser.parseCSSContent: the CSSFile for `content`, stamped with the live
\* mtime of the file (the current time when the file is not there).
ParseCSSContent(content, filePath) ==
  [filePath |-> filePath,
   lastModified |-> IF disk[filePath].exists THEN disk[filePath].mtimeMs ELSE now,
   classes |-> content]

\* A cache that calls every entry stale.
IsStaleAlways(cache, filePath) == TRUE

\* CSSFileCache.isStale on the cache map `cache`.
IsStale(cache, filePath) ==
  IF filePath \notin DOMAIN cache THEN TRUE
  ELSE IF disk[filePath].exists
       THEN disk[filePath].mtimeMs # cache[filePath].lastModified
       ELSE TRUE

\* Map.set on ComponentIndex.cssFiles: an existing key keeps its position.
CssFilesSet(files, cssFile) ==
  IF \E i \in 1..Len(files) : files[i].filePath = cssFile.filePath
  THEN [i \in 1..Len(files) |->
          IF files[i].filePath = cssFile.filePath THEN cssFile ELSE files[i]]
  ELSE Append(files, cssFile)

\* Array.from(componentIndex.cssFiles.keys())
Keys(files) == [i \in 1..Len(files) |-> files[i].filePath]

\* A flattened class map in which the last file that defines a name wins.
AllClassesLastWins(files) ==
  LET names == UNION {files[i].classes : i \in 1..Len(files)}
      lastOf(n) == CHOOSE i \in 1..Len(files) :
                     /\ n \in files[i].classes
                     /\ \A j \in (i + 1)..Len(files) : n \notin files[j].classes
  IN [n \in names |-> [name |-> n, sourceFile |-> files[lastOf(n)].filePath]]

\* The flattened class map the ComponentIndex constructor builds: the first
\* file, in Map order, that defines a name provides its CSSClass.
AllClasses(files) ==
  LET names == UNION {files[i].classes : i \in 1..Len(files)}
      first(n) == CHOOSE i \in 1..Len(files) :
                    /\ n \in files[i].classes
                    /\ \A j \in 1..(i - 1) : n \notin files[j].classes
  IN [n \in names |-> [name |-> n, sourceFile |-> files[first(n)].filePath]]

\* new ComponentIndex(componentPath, cssFiles); it throws on an empty path.
ConstructorThrows(componentPath) == componentPath = EmptyPath
NewComponentIndex(componentPath, files) ==
  [componentPath |-> componentPath, cssFiles |-> files, allClasses |-> AllClasses(files)]

\* A reverse map that records only the first dependent of a file.
RevAddNewOnly(rev, cssFilePath, componentPath) ==
  IF cssFilePath \in DOMAIN rev THEN rev ELSE MapSet(rev, cssFilePath, {componentPath})

\* The reverse-map update of indexComponent: add componentPath under cssFilePath.
RevAdd(rev, cssFilePath, componentPath) ==
  [x \in DOMAIN rev \cup {cssFilePath} |->
     IF x = cssFilePath
     THEN (IF cssFilePath \in DOMAIN rev THEN rev[cssFilePath] ELSE {}) \cup {componentPath}
     ELSE rev[x]]

\* CSSIndex.removeComponentFromReverseMapping on index map idx and reverse map rev.
RemoveComponentFromReverseMapping(idx, rev, componentPath) ==
  IF componentPath \notin DOMAIN idx THEN rev
  ELSE LET old == Range(Keys(idx[componentPath].cssFiles))
           emptied(x) == x \in old /\ rev[x] \ {componentPath} = {}
       IN [x \in {y \in DOMAIN rev : ~emptied(y)} |->
             IF x \in old THEN rev[x] \ {componentPath} ELSE rev[x]]

\* The for-loop of indexComponent from position j, up to the next parseCSSFile
\* call (a cached, fresh file is taken from the cache without suspending).
RECURSIVE RunLoop(_, _, _, _, _, _)
RunLoop(componentPath, cssFilePaths, j, files, cache, rev) ==
  IF j > Len(cssFilePaths) THEN [at |-> j, cssFiles |-> files, rev |-> rev]
  ELSE IF cssFilePaths[j] \in DOMAIN cache /\ ~IsStale(cache, cssFilePaths[j])
       THEN RunLoop(componentPath, cssFilePaths, j + 1,
                    CssFilesSet(files, cache[cssFilePaths[j]]), cache,
                    RevAdd(rev, cssFilePaths[j], componentPath))
       ELSE [at |-> j, cssFiles |-> files, rev |-> rev]

\* The engine as one record, so that an operation can thread it through the
\* calls it makes; tasks are the indexComponent calls suspended at an await.
Engine == [index |-> index, fileCache |-> fileCache, rev |-> cssFileToComponents,
           tasks |-> {}, parsed |-> <<>>, threw |-> FALSE]

\* One parseCSSFile call as the log keeps it: the path, and the lastModified of
\* the cache entry the call found (none when the path was not cached).
ParseCall(cache, filePath) ==
  [filePath |-> filePath,
   cached |-> IF filePath \in DOMAIN cache THEN <<cache[filePath].lastModified>> ELSE <<>>]

\* indexComponent from position j on engine S: run to the next await, where the
\* call is suspended as a task, or to the end, where the ComponentIndex is
\* built and installed (or the constructor throws and the call rejects).
Advance(S, componentPath, cssFilePaths, j, files) ==
  LET r == RunLoop(componentPath, cssFilePaths, j, files, S.fileCache, S.rev) IN
  IF r.at > Len(cssFilePaths)
  THEN IF ConstructorThrows(componentPath)
       THEN [S EXCEPT !.rev = r.rev, !.threw = TRUE]
       ELSE [S EXCEPT !.rev = r.rev,
                      !.index = MapSet(S.index, componentPath,
                                       NewComponentIndex(componentPath, r.cssFiles))]
  ELSE [S EXCEPT !.rev = r.rev,
                 !.parsed = Append(@, ParseCall(S.fileCache, cssFilePaths[r.at])),
                 !.tasks = @ \cup {[componentPath |-> componentPath,
                                    cssFilePaths |-> cssFilePaths,
                                    at |-> r.at,
                                    cssFiles |-> r.cssFiles,
                                    pc |-> IF disk[cssFilePaths[r.at]].exists
                                           THEN "readFile" ELSE "notFound"]}]

\* An indexing loop that a failed parse ends, the paths after it unread.
ResumeOnAbort(S, t) ==
  LET p == t.cssFilePaths[t.at]
      ok == t.pc = "readFile" /\ disk[p].exists
      cssFile == ParseCSSContent(disk[p].content, p)
      S0 == IF ok
            THEN [S EXCEPT !.tasks = @ \ {t},
                           !.fileCache = MapSet(@, p, cssFile),
                           !.rev = RevAdd(@, p, t.componentPath)]
            ELSE [S EXCEPT !.tasks = @ \ {t}]
      files == IF ok THEN CssFilesSet(t.cssFiles, cssFile) ELSE t.cssFiles
  IN Advance(S0, t.componentPath, t.cssFilePaths,
             IF ok THEN t.at + 1 ELSE Len(t.cssFilePaths) + 1, files)

\* The continuation of the suspended call t once its parseCSSFile settles: a
\* parsed file is cached, recorded and added to the reverse map; a failed one is
\* skipped; the loop goes on with the next path.
ResumeOn(S, t) ==
  LET p == t.cssFilePaths[t.at]
      ok == t.pc = "readFile" /\ disk[p].exists
      cssFile == ParseCSSContent(disk[p].content, p)
      S0 == IF ok
            THEN [S EXCEPT !.tasks = @ \ {t},
                           !.fileCache = MapSet(@, p, cssFile),
                           !.rev = RevAdd(@, p, t.componentPath)]
            ELSE [S EXCEPT !.tasks = @ \ {t}]
      files == IF ok THEN CssFilesSet(t.cssFiles, cssFile) ELSE t.cssFiles
  IN Advance(S0, t.componentPath, t.cssFilePaths, t.at + 1, files)

\* Every engine an operation can end in: the suspended calls are resumed in
\* any order until none is left.
RECURSIVE Outcomes(_)
Outcomes(S) ==
  IF S.tasks = {} THEN {S} ELSE UNION {Outcomes(ResumeOn(S, t)) : t \in S.tasks}

\* The synchronous loop of updateCSSFile over the dependents of the file: each
\* indexed one is re-indexed with the keys of its own cssFiles.
RECURSIVE FanOut(_, _)
FanOut(S, components) ==
  IF components = {} THEN S
  ELSE LET c == CHOOSE x \in components : TRUE IN
       IF c \notin DOMAIN S.index THEN FanOut(S, components \ {c})
       ELSE FanOut(Advance([S EXCEPT !.rev = RemoveComponentFromReverseMapping(
                                                S.index, S.rev, c)],
                           c, Keys(S.index[c].cssFiles), 1, <<>>),
                   components \ {c})

Install(S) ==
  /\ index' = S.index
  /\ fileCache' = S.fileCache
  /\ cssFileToComponents' = S.rev
  /\ parsed' = S.parsed

\* The set cssFileToComponents.get(filePath) iterates over (empty when absent).
Dependents(filePath) ==
  IF filePath \in DOMAIN cssFileToComponents THEN cssFileToComponents[filePath] ELSE {}

\* A timer of the runtime.  A timer table holds, as the handle of a path's
\* timer, the time that timer has left.
Timer(kind, path, remaining) == [kind |-> kind, path |-> path, remaining |-> remaining]

\* ------------------------------------------------------------- operations
\* CSSIndex.indexComponent, run to completion.
IndexComponent(componentPath, cssFilePaths) ==
  /\ LET S0 == [Engine EXCEPT !.rev = RemoveComponentFromReverseMapping(
                                        index, cssFileToComponents, componentPath)]
         S1 == Advance(S0, componentPath, cssFilePaths, 1, <<>>)
     IN \E S2 \in Outcomes(S1) :
          /\ Install(S2)
          /\ last' = [op |-> "indexComponent", path |-> componentPath,
                      requested |-> Range(cssFilePaths), deps |-> {},
                      status |-> IF S2.threw THEN "rejected" ELSE "resolved"]
  /\ UNCHANGED fsVars

\* An update that invalidates the cache entry and re-indexes nothing.
UpdateCSSFileInvalidateOnly(filePath) ==
  /\ fileCache' = MapDelete(fileCache, filePath)
  /\ last' = [op |-> "updateCSSFile", path |-> filePath, requested |-> {},
              deps |-> Dependents(filePath) \cap DOMAIN index,
              status |-> "resolved"]
  /\ parsed' = <<>>
  /\ UNCHANGED <<index, cssFileToComponents, fsVars>>

\* CSSIndex.updateCSSFile, run to completion; a rejected re-index is caught.
UpdateCSSFile(filePath) ==
  /\ LET S0 == [Engine EXCEPT !.fileCache = MapDelete(fileCache, filePath)]
         S1 == FanOut(S0, Dependents(filePath))
     IN \E S2 \in Outcomes(S1) :
          /\ Install(S2)
          /\ last' = [op |-> "updateCSSFile", path |-> filePath, requested |-> {},
                      deps |-> Dependents(filePath) \cap DOMAIN index,
                      status |-> "resolved"]
  /\ UNCHANGED fsVars

\* A removal that leaves the reverse-map entry of the file in place.
RemoveCSSFileKeepsEntry(filePath) ==
  /\ fileCache' = MapDelete(fileCache, filePath)
  /\ index' = [c \in DOMAIN index \ Dependents(filePath) |-> index[c]]
  /\ cssFileToComponents' = cssFileToComponents
  /\ last' = [op |-> "removeCSSFile", path |-> filePath, requested |-> {},
              deps |-> Dependents(filePath), status |-> "resolved"]
  /\ parsed' = <<>>
  /\ UNCHANGED fsVars

\* CSSIndex.removeCSSFile
RemoveCSSFile(filePath) ==
  /\ fileCache' = MapDelete(fileCache, filePath)
  /\ index' = [c \in DOMAIN index \ Dependents(filePath) |-> index[c]]
  /\ cssFileToComponents' = MapDelete(cssFileToComponents, filePath)
  /\ last' = [op |-> "removeCSSFile", path |-> filePath, requested |-> {},
              deps |-> Dependents(filePath), status |-> "resolved"]
  /\ parsed' = <<>>
  /\ UNCHANGED fsVars

\* CSSIndex.handleComponentChange
HandleComponentChange(componentPath) ==
  /\ cssFileToComponents' =
       RemoveComponentFromReverseMapping(index, cssFileToComponents, componentPath)
  /\ index' = MapDelete(index, componentPath)
  /\ last' = [op |-> "handleComponentChange", path |-> componentPath,
              requested |-> {}, deps |-> {}, status |-> "resolved"]
  /\ parsed' = <<>>
  /\ UNCHANGED <<fileCache, fsVars>>

\* A clear that empties the table of the component timers and leaves the
\* timers themselves running.
ClearLeavesComponentTimers ==
  /\ index' = EmptyMap
  /\ fileCache' = EmptyMap
  /\ cssFileToComponents' = EmptyMap
  /\ LET timers == {Timer("css", p, cssFileChangeTimers[p]) :
                      p \in DOMAIN cssFileChangeTimers}
     IN scheduled' = scheduled \ timers /\ cancelled' = scheduled \cap timers
  /\ cssFileChangeTimers' = EmptyMap
  /\ componentChangeTimers' = EmptyMap
  /\ last' = [op |-> "clear", path |-> EmptyPath, requested |-> {}, deps |-> {},
              status |-> "resolved"]
  /\ parsed' = <<>>
  /\ UNCHANGED fsVars

\* CSSIndex.clear
Clear ==
  /\ index' = EmptyMap
  /\ fileCache' = EmptyMap
  /\ cssFileToComponents' = EmptyMap
  /\ LET timers == {Timer("css", p, cssFileChangeTimers[p]) :
                      p \in DOMAIN cssFileChangeTimers}
                   \cup {Timer("component", c, componentChangeTimers[c]) :
                           c \in DOMAIN componentChangeTimers}
     IN scheduled' = scheduled \ timers /\ cancelled' = scheduled \cap timers
  /\ cssFileChangeTimers' = EmptyMap
  /\ componentChangeTimers' = EmptyMap
  /\ last' = [op |-> "clear", path |-> EmptyPath, requested |-> {}, deps |-> {},
              status |-> "resolved"]
  /\ parsed' = <<>>
  /\ UNCHANGED fsVars

\* ------------------------------------------------------------- environment
\* A step of the file system is no operation of the engine.
FsStep == [op |-> "fs", path |-> EmptyPath, requested |-> {}, deps |-> {},
           status |-> "resolved"]

\* Another process writes a CSS file: new content, newer mtime.
FsWrite(filePath, content) ==
  /\ now <= MaxWrites
  /\ now' = now + 1
  /\ disk' = [disk EXCEPT ![filePath] =
                [exists |-> TRUE, mtimeMs |-> now + 1, content |-> content]]
  /\ last' = FsStep
  /\ parsed' = <<>>
  /\ UNCHANGED <<index, fileCache, cssFileToComponents, timerVars>>

\* Another process deletes a CSS file.
FsDelete(filePath) ==
  /\ disk[filePath].exists
  /\ disk' = [disk EXCEPT ![filePath] = NoFile]
  /\ last' = FsStep
  /\ parsed' = <<>>
  /\ UNCHANGED <<now, index, fileCache, cssFileToComponents, timerVars>>

\* ------------------------------------------------------------- specification
\* The engine as constructed, on a disk where each CSS file is there or not.
Init ==
  /\ disk \in [CssPaths -> {NoFile, [exists |-> TRUE, mtimeMs |-> 1, content |-> InitialContent]}]
  /\ now = 1
  /\ index = EmptyMap
  /\ fileCache = EmptyMap
  /\ cssFileToComponents = EmptyMap
  /\ parsed = <<>>
  /\ imports = EmptyMap
  /\ cssFileChangeTimers = EmptyMap
  /\ componentChangeTimers = EmptyMap
  /\ scheduled = {}
  /\ watch = EmptyMap
  /\ cancelled = {}
  /\ call = <<>>
  /\ ret = <<>>
  /\ waiting = EmptyMap
  /\ inflight = {}
  /\ heap = NoObjects
  /\ last = [op |-> "new", path |-> EmptyPath, requested |-> {}, deps |-> {},
             status |-> "resolved"]

\* The public operations called one after the other on component files.
Next ==
  \/ \E c \in Components, l \in PathLists : IndexComponent(c, l) /\ UNCHANGED <<imports, watch, timerVars, cancelled, restVars>>
  \/ \E f \in CssPaths : UpdateCSSFile(f) /\ UNCHANGED <<imports, watch, timerVars, cancelled, restVars>>
  \/ \E f \in CssPaths : RemoveCSSFile(f) /\ UNCHANGED <<imports, watch, timerVars, cancelled, restVars>>
  \/ \E c \in Components : HandleComponentChange(c) /\ UNCHANGED <<imports, watch, timerVars, cancelled, restVars>>
  \/ Clear /\ UNCHANGED <<imports, watch, restVars>>
  \/ \E f \in CssPaths, k \in Contents : FsWrite(f, k) /\ UNCHANGED <<imports, watch, cancelled, restVars>>
  \/ \E f \in CssPaths : FsDelete(f) /\ UNCHANGED <<imports, watch, cancelled, restVars>>

Spec == Init /\ [][Next]_vars

\* The same operations, with callers that may also pass the empty string as
\* the component path.
AnyPaths == {EmptyPath, "A.tsx"}
NextAnyPath ==
  \/ \E c \in AnyPaths, l \in PathLists : IndexComponent(c, l) /\ UNCHANGED <<imports, watch, timerVars, cancelled, restVars>>
  \/ \E f \in CssPaths : UpdateCSSFile(f) /\ UNCHANGED <<imports, watch, timerVars, cancelled, restVars>>
  \/ \E f \in CssPaths : RemoveCSSFile(f) /\ UNCHANGED <<imports, watch, timerVars, cancelled, restVars>>
  \/ \E c \in AnyPaths : HandleComponentChange(c) /\ UNCHANGED <<imports, watch, timerVars, cancelled, restVars>>
  \/ Clear /\ UNCHANGED <<imports, watch, restVars>>
  \/ \E f \in CssPaths, k \in Contents : FsWrite(f, k) /\ UNCHANGED <<imports, watch, cancelled, restVars>>
  \/ \E f \in CssPaths : FsDelete(f) /\ UNCHANGED <<imports, watch, cancelled, restVars>>

SpecAnyPath == Init /\ [][NextAnyPath]_vars

\* The same operations, remembering for each component the import list its
\* caller last handed to indexComponent, for as long as the component counts
\* as indexed (an invalidation forgets it).
NextImports ==
  \/ \E c \in Components, l \in PathLists :
       IndexComponent(c, l) /\ imports' = MapSet(imports, c, Range(l)) /\ UNCHANGED <<watch, timerVars, cancelled, restVars>>
  \/ \E f \in CssPaths : UpdateCSSFile(f) /\ UNCHANGED <<imports, watch, timerVars, cancelled, restVars>>
  \/ \E f \in CssPaths :
       RemoveCSSFile(f) /\ imports' = [c \in DOMAIN imports \cap DOMAIN index' |-> imports[c]]
         /\ UNCHANGED <<watch, timerVars, cancelled, restVars>>
  \/ \E c \in Components : HandleComponentChange(c) /\ imports' = MapDelete(imports, c)
                                          /\ UNCHANGED <<watch, timerVars, cancelled, restVars>>
  \/ Clear /\ imports' = EmptyMap /\ UNCHANGED <<watch, restVars>>
  \/ \E f \in CssPaths, k \in Contents : FsWrite(f, k) /\ UNCHANGED <<imports, watch, cancelled, restVars>>
  \/ \E f \in CssPaths : FsDelete(f) /\ UNCHANGED <<imports, watch, cancelled, restVars>>

SpecImports == Init /\ [][NextImports]_vars

\* The operations on the open component file, remembering the list of paths,
\* in its order, that its caller last handed to indexComponent.
NextOrder ==
  \/ \E c \in WatchedComponents, l \in PathLists :
       IndexComponent(c, l) /\ imports' = MapSet(imports, c, l)
         /\ UNCHANGED <<watch, timerVars, cancelled, restVars>>
  \/ \E f \in CssPaths :
       UpdateCSSFile(f) /\ UNCHANGED <<imports, watch, timerVars, cancelled, restVars>>
  \/ \E f \in CssPaths :
       RemoveCSSFile(f) /\ imports' = [c \in DOMAIN imports \cap DOMAIN index' |-> imports[c]]
         /\ UNCHANGED <<watch, timerVars, cancelled, restVars>>
  \/ \E f \in CssPaths, k \in Contents :
       FsWrite(f, k) /\ UNCHANGED <<imports, watch, cancelled, restVars>>
  \/ \E f \in CssPaths : FsDelete(f) /\ UNCHANGED <<imports, watch, cancelled, restVars>>

SpecOrder == Init /\ [][NextOrder]_vars

\* ------------------------------------------------------------- file watchers
\* What the watcher of a CSS path has seen of the burst of change events the
\* path is in: the time since the last event (counted up to one window),
\* whether the burst has more than one event, and for each updateCSSFile the
\* timers made for the path since the burst began, the time that had passed
\* since the last event.
NewBurst == [since |-> 0, collapsed |-> FALSE, updates |-> <<>>]
WatchEvent(filePath) ==
  IF filePath \in DOMAIN watch /\ watch[filePath].since < DEBOUNCE_DELAY_MS
  THEN MapSet(watch, filePath, [watch[filePath] EXCEPT !.since = 0, !.collapsed = TRUE])
  ELSE MapSet(watch, filePath, NewBurst)
WatchFire(filePath) ==
  IF filePath \in DOMAIN watch
  THEN MapSet(watch, filePath,
              [watch[filePath] EXCEPT !.updates = Append(@, watch[filePath].since)])
  ELSE MapSet(watch, filePath, [NewBurst EXCEPT !.updates = <<0>>])
WatchTick ==
  [p \in DOMAIN watch |->
     [watch[p] EXCEPT !.since = IF @ + TickMs > DEBOUNCE_DELAY_MS
                                THEN DEBOUNCE_DELAY_MS ELSE @ + TickMs]]

\* The runtime runs a timer's callback as soon as the timer is due, before it
\* lets time pass or delivers a later event.
NoTimerDue == \A t \in scheduled : t.remaining > 0

\* A change handler that sets its timer and leaves the one before it running.
HandleCSSFileChangeNoClear(filePath) ==
  /\ NoTimerDue
  /\ scheduled' = scheduled \cup {Timer("css", filePath, DEBOUNCE_DELAY_MS)}
  /\ cancelled' = {}
  /\ cssFileChangeTimers' = MapSet(cssFileChangeTimers, filePath, DEBOUNCE_DELAY_MS)
  /\ watch' = WatchEvent(filePath)
  /\ last' = [op |-> "handleCSSFileChange", path |-> filePath, requested |-> {},
              deps |-> {}, status |-> "resolved"]
  /\ parsed' = <<>>
  /\ UNCHANGED <<fsVars, index, fileCache, cssFileToComponents, componentChangeTimers>>

\* CSSIndex.handleCSSFileChange: the handler of the create and the change
\* events of the CSS watcher.
HandleCSSFileChange(filePath) ==
  LET existingTimer == IF filePath \in DOMAIN cssFileChangeTimers
                       THEN {Timer("css", filePath, cssFileChangeTimers[filePath])}
                       ELSE {}
  IN /\ NoTimerDue
     /\ scheduled' = (scheduled \ existingTimer)
                       \cup {Timer("css", filePath, DEBOUNCE_DELAY_MS)}
     /\ cancelled' = scheduled \cap existingTimer
     /\ cssFileChangeTimers' = MapSet(cssFileChangeTimers, filePath, DEBOUNCE_DELAY_MS)
     /\ watch' = WatchEvent(filePath)
     /\ last' = [op |-> "handleCSSFileChange", path |-> filePath, requested |-> {},
                 deps |-> {}, status |-> "resolved"]
     /\ parsed' = <<>>
     /\ UNCHANGED <<fsVars, index, fileCache, cssFileToComponents, componentChangeTimers>>

\* The callback of the timer handleCSSFileChange sets.
CssTimerFires(filePath) ==
  /\ Timer("css", filePath, 0) \in scheduled
  /\ scheduled' = scheduled \ {Timer("css", filePath, 0)}
  /\ cancelled' = {}
  /\ cssFileChangeTimers' = MapDelete(cssFileChangeTimers, filePath)
  /\ UpdateCSSFile(filePath)
  /\ watch' = WatchFire(filePath)
  /\ UNCHANGED componentChangeTimers

\* A delete handler that removes the file and leaves its change timer running.
HandleCSSFileDeleteKeepsTimer(filePath) ==
  /\ NoTimerDue
  /\ cancelled' = {}
  /\ RemoveCSSFile(filePath)
  /\ watch' = MapDelete(watch, filePath)
  /\ UNCHANGED <<scheduled, cssFileChangeTimers, componentChangeTimers>>

\* CSSIndex.handleCSSFileDelete: the handler of the delete event of the CSS
\* watcher.
HandleCSSFileDelete(filePath) ==
  /\ NoTimerDue
  /\ IF filePath \in DOMAIN cssFileChangeTimers
     THEN /\ scheduled' = scheduled \ {Timer("css", filePath, cssFileChangeTimers[filePath])}
          /\ cancelled' = scheduled \cap {Timer("css", filePath, cssFileChangeTimers[filePath])}
          /\ cssFileChangeTimers' = MapDelete(cssFileChangeTimers, filePath)
     ELSE cancelled' = {} /\ UNCHANGED <<scheduled, cssFileChangeTimers>>
  /\ RemoveCSSFile(filePath)
  /\ watch' = MapDelete(watch, filePath)
  /\ UNCHANGED componentChangeTimers

\* Time passes: one step of the clock.
Tick ==
  /\ NoTimerDue
  /\ scheduled # {} \/ \E p \in DOMAIN watch : watch[p].since < DEBOUNCE_DELAY_MS
  /\ LET left(r) == IF r > TickMs THEN r - TickMs ELSE 0
     IN /\ scheduled' = {Timer(t.kind, t.path, left(t.remaining)) : t \in scheduled}
        /\ cssFileChangeTimers' = [p \in DOMAIN cssFileChangeTimers |->
                                     left(cssFileChangeTimers[p])]
        /\ componentChangeTimers' = [c \in DOMAIN componentChangeTimers |->
                                       left(componentChangeTimers[c])]
  /\ watch' = WatchTick
  /\ cancelled' = {}
  /\ last' = [op |-> "tick", path |-> EmptyPath, requested |-> {}, deps |-> {},
              status |-> "resolved"]
  /\ parsed' = <<>>
  /\ UNCHANGED <<fsVars, index, fileCache, cssFileToComponents>>

\* The engine with its CSS watcher set up, on a disk that stays as it is at
\* start-up: components are indexed and the watcher's events arrive at any
\* time.
NextWatch ==
  \/ \E c \in Components, l \in PathLists :
       IndexComponent(c, l) /\ cancelled' = {}
         /\ UNCHANGED <<imports, watch, timerVars, restVars>>
  \/ \E f \in CssPaths : HandleCSSFileChange(f) /\ UNCHANGED <<imports, restVars>>
  \/ \E f \in CssPaths : CssTimerFires(f) /\ UNCHANGED <<imports, restVars>>
  \/ \E f \in CssPaths : HandleCSSFileDelete(f) /\ UNCHANGED <<imports, restVars>>
  \/ Tick /\ UNCHANGED <<imports, restVars>>
  \/ Clear /\ watch' = EmptyMap /\ UNCHANGED <<imports, restVars>>

SpecWatch == Init /\ [][NextWatch]_vars

\* A handler that cancels the pending timer of every component file before it
\* sets its own.
HandleComponentFileChangeClearsAll(filePath) ==
  LET existing == {Timer("component", c, componentChangeTimers[c]) :
                     c \in DOMAIN componentChangeTimers}
  IN /\ NoTimerDue
     /\ scheduled' = (scheduled \ existing)
                       \cup {Timer("component", filePath, DEBOUNCE_DELAY_MS)}
     /\ cancelled' = scheduled \cap existing
     /\ componentChangeTimers' = MapSet(EmptyMap, filePath, DEBOUNCE_DELAY_MS)
     /\ last' = [op |-> "handleComponentFileChange", path |-> filePath, requested |-> {},
                 deps |-> {}, status |-> "resolved"]
     /\ parsed' = <<>>
     /\ UNCHANGED <<fsVars, index, fileCache, cssFileToComponents, cssFileChangeTimers>>

\* CSSIndex.handleComponentFileChange: the handler of the create and the
\* change events of the component watchers.
HandleComponentFileChange(filePath) ==
  LET existingTimer == IF filePath \in DOMAIN componentChangeTimers
                       THEN {Timer("component", filePath, componentChangeTimers[filePath])}
                       ELSE {}
  IN /\ NoTimerDue
     /\ scheduled' = (scheduled \ existingTimer)
                       \cup {Timer("component", filePath, DEBOUNCE_DELAY_MS)}
     /\ cancelled' = scheduled \cap existingTimer
     /\ componentChangeTimers' = MapSet(componentChangeTimers, filePath, DEBOUNCE_DELAY_MS)
     /\ last' = [op |-> "handleComponentFileChange", path |-> filePath, requested |-> {},
                 deps |-> {}, status |-> "resolved"]
     /\ parsed' = <<>>
     /\ UNCHANGED <<fsVars, index, fileCache, cssFileToComponents, cssFileChangeTimers>>

\* The callback of the timer handleComponentFileChange sets.
ComponentTimerFires(filePath) ==
  /\ Timer("component", filePath, 0) \in scheduled
  /\ scheduled' = scheduled \ {Timer("component", filePath, 0)}
  /\ cancelled' = {}
  /\ componentChangeTimers' = MapDelete(componentChangeTimers, filePath)
  /\ HandleComponentChange(filePath)
  /\ UNCHANGED cssFileChangeTimers

\* The engine with the CSS watcher and the component watchers set up, until
\* it is cleared at shutdown; one component file is open.
NextTimers ==
  \/ \E c \in WatchedComponents, l \in PathLists :
       IndexComponent(c, l) /\ cancelled' = {}
         /\ UNCHANGED <<imports, watch, timerVars, restVars>>
  \/ \E f \in CssPaths : HandleCSSFileChange(f) /\ UNCHANGED <<imports, restVars>>
  \/ \E f \in CssPaths : CssTimerFires(f) /\ UNCHANGED <<imports, restVars>>
  \/ \E f \in CssPaths : HandleCSSFileDelete(f) /\ UNCHANGED <<imports, restVars>>
  \/ \E c \in WatchedComponents : HandleComponentFileChange(c) /\ UNCHANGED <<imports, watch, restVars>>
  \/ \E c \in WatchedComponents : ComponentTimerFires(c) /\ UNCHANGED <<imports, watch, restVars>>
  \/ Tick /\ UNCHANGED <<imports, restVars>>
  \/ Clear /\ watch' = EmptyMap /\ UNCHANGED <<imports, restVars>>

SpecTimers == Init /\ [][NextTimers]_vars

\* The two timer tables with every component file watched: the open component
\* file, which imports every CSS file, is indexed, and the events of the CSS
\* files and of both component files arrive at any time.
NextTimerTables ==
  \/ \E c \in WatchedComponents, l \in {m \in PathLists : Range(m) = CssPaths} :
       IndexComponent(c, l) /\ cancelled' = {}
         /\ UNCHANGED <<imports, watch, timerVars, restVars>>
  \/ \E f \in CssPaths : HandleCSSFileChange(f) /\ UNCHANGED <<imports, restVars>>
  \/ \E f \in CssPaths : CssTimerFires(f) /\ UNCHANGED <<imports, restVars>>
  \/ \E f \in CssPaths : HandleCSSFileDelete(f) /\ UNCHANGED <<imports, restVars>>
  \/ \E c \in Components : HandleComponentFileChange(c) /\ UNCHANGED <<imports, watch, restVars>>
  \/ \E c \in Components : ComponentTimerFires(c) /\ UNCHANGED <<imports, watch, restVars>>
  \/ Tick /\ UNCHANGED <<imports, restVars>>

SpecTimerTables == Init /\ [][NextTimerTables]_vars

\* How long the oldest change event of a path that no update has answered yet
\* has waited, counted until it is more than one window.
WaitEvent(filePath) ==
  IF filePath \in DOMAIN waiting THEN waiting ELSE MapSet(waiting, filePath, 0)
WaitTick ==
  [p \in DOMAIN waiting |->
     IF waiting[p] > DEBOUNCE_DELAY_MS THEN waiting[p] ELSE waiting[p] + TickMs]

\* The engine with its CSS watcher, one component file open, and the wait of
\* every change event measured.
NextLatency ==
  \/ \E c \in WatchedComponents, l \in PathLists :
       IndexComponent(c, l) /\ cancelled' = {}
         /\ UNCHANGED <<imports, watch, timerVars, pureVars, waiting, inflight, heap>>
  \/ \E f \in CssPaths :
       HandleCSSFileChange(f) /\ waiting' = WaitEvent(f) /\ UNCHANGED <<imports, pureVars, inflight, heap>>
  \/ \E f \in CssPaths :
       CssTimerFires(f) /\ waiting' = MapDelete(waiting, f) /\ UNCHANGED <<imports, pureVars, inflight, heap>>
  \/ \E f \in CssPaths :
       HandleCSSFileDelete(f) /\ waiting' = MapDelete(waiting, f)
         /\ UNCHANGED <<imports, pureVars, inflight, heap>>
  \/ Tick /\ waiting' = WaitTick /\ UNCHANGED <<imports, pureVars, inflight, heap>>

SpecLatency == Init /\ [][NextLatency]_vars

\* ------------------------------------------------------------- lookups
\* What a lookup returns: the value in a one-element sequence, or the empty
\* sequence for undefined.
Found(v) == <<v>>
Undefined == <<>>
MapGet(m, k) == IF k \in DOMAIN m THEN Found(m[k]) ELSE Undefined

\* CSSIndex.getComponentIndex
GetComponentIndex(componentPath) ==
  /\ call' = [fn |-> "getComponentIndex", componentPath |-> componentPath]
  /\ ret' = MapGet(index, componentPath)
  /\ last' = [op |-> "getComponentIndex", path |-> componentPath, requested |-> {},
              deps |-> {}, status |-> "resolved"]
  /\ parsed' = <<>>
  /\ cancelled' = {}
  /\ UNCHANGED <<fsVars, index, fileCache, cssFileToComponents, timerVars>>

\* A getClass that indexes the component it does not find.
GetClassIndexing(componentPath, className) ==
  /\ call' = [fn |-> "getClass", componentPath |-> componentPath, className |-> className]
  /\ ret' = IF componentPath \notin DOMAIN index THEN Undefined
            ELSE MapGet(index[componentPath].allClasses, className)
  /\ index' = IF componentPath \in DOMAIN index THEN index
              ELSE MapSet(index, componentPath, NewComponentIndex(componentPath, <<>>))
  /\ last' = [op |-> "getClass", path |-> componentPath, requested |-> {},
              deps |-> {}, status |-> "resolved"]
  /\ parsed' = <<>>
  /\ cancelled' = {}
  /\ UNCHANGED <<fsVars, fileCache, cssFileToComponents, timerVars>>

\* CSSIndex.getClass, through ComponentIndex.getClass
GetClass(componentPath, className) ==
  /\ call' = [fn |-> "getClass", componentPath |-> componentPath, className |-> className]
  /\ ret' = IF componentPath \notin DOMAIN index THEN Undefined
            ELSE MapGet(index[componentPath].allClasses, className)
  /\ last' = [op |-> "getClass", path |-> componentPath, requested |-> {},
              deps |-> {}, status |-> "resolved"]
  /\ parsed' = <<>>
  /\ cancelled' = {}
  /\ UNCHANGED <<fsVars, index, fileCache, cssFileToComponents, timerVars>>

\* Class names a caller asks for.
ClassNames == {"a", "b"}

\* The provider adapters at work on the open component file: they index it,
\* invalidate it and look classes up, while change events of CSS files set
\* their timers.
NextLookup ==
  \/ \E c \in WatchedComponents, l \in PathLists :
       IndexComponent(c, l) /\ cancelled' = {}
         /\ UNCHANGED <<imports, watch, timerVars, restVars>>
  \/ \E c \in WatchedComponents :
       HandleComponentChange(c) /\ cancelled' = {}
         /\ UNCHANGED <<imports, watch, timerVars, restVars>>
  \/ \E f \in CssPaths : HandleCSSFileChange(f) /\ UNCHANGED <<imports, restVars>>
  \/ \E c \in Components :
       GetComponentIndex(c) /\ UNCHANGED <<imports, watch, waiting, inflight, heap>>
  \/ \E c \in Components, n \in ClassNames :
       GetClass(c, n) /\ UNCHANGED <<imports, watch, waiting, inflight, heap>>

SpecLookup == Init /\ [][NextLookup]_vars

\* ------------------------------------------------------------- paths
\* A string is the sequence of its characters.  The characters that matter to
\* the resolver: the dot, the separator, the alias marks and a letter.
Chars == {".", "/", "x", "@", "~"}
Strings(n) == UNION {[1..k -> Chars] : k \in 0..n}

\* String.prototype.startsWith, includes, substring(2)
StartsWith(s, prefix) ==
  Len(s) >= Len(prefix) /\ SubSeq(s, 1, Len(prefix)) = prefix
Includes(s, part) ==
  \E i \in 1..(Len(s) - Len(part) + 1) : SubSeq(s, i, i + Len(part) - 1) = part
Substring2(s) == SubSeq(s, 3, Len(s))

\* The segments of a path between its separators, empty ones included.
RECURSIVE Segments(_)
Segments(s) ==
  IF \A i \in 1..Len(s) : s[i] # "/" THEN <<s>>
  ELSE LET i == CHOOSE k \in 1..Len(s) : s[k] = "/" /\ \A j \in 1..(k - 1) : s[j] # "/"
       IN <<SubSeq(s, 1, i - 1)>> \o Segments(SubSeq(s, i + 1, Len(s)))

\* An absolute path from its segments: "." and empty segments dropped, ".."
\* taken back, as path.resolve and path.normalize do it.
RECURSIVE Walk(_, _)
Walk(done, segs) ==
  IF segs = <<>> THEN done
  ELSE LET seg == Head(segs) IN
       IF seg = <<>> \/ seg = <<".">> THEN Walk(done, Tail(segs))
       ELSE IF seg = <<".", ".">>
            THEN Walk(IF done = <<>> THEN done ELSE SubSeq(done, 1, Len(done) - 1),
                      Tail(segs))
            ELSE Walk(Append(done, seg), Tail(segs))
RECURSIVE Render(_)
Render(segs) == IF segs = <<>> THEN <<>> ELSE <<"/">> \o Head(segs) \o Render(Tail(segs))
Absolute(segs) == IF segs = <<>> THEN <<"/">> ELSE Render(segs)

\* path.resolve(dir, name) for an absolute dir, and path.normalize of it
PathResolve(dir, name) ==
  IF StartsWith(name, <<"/">>) THEN Absolute(Walk(<<>>, Segments(name)))
  ELSE Absolute(Walk(<<>>, Segments(dir) \o Segments(name)))
PathNormalize(p) == Absolute(Walk(<<>>, Segments(p)))

\* path.dirname of an absolute path
Dirname(p) ==
  LET segs == Walk(<<>>, Segments(p))
  IN IF segs = <<>> THEN <<"/">> ELSE Absolute(SubSeq(segs, 1, Len(segs) - 1))

\* fs.existsSync
ExistsSync(p) == p \in DOMAIN disk /\ disk[p].exists

\* A resolver that does not look whether the file is there.
ResolveImportPathUnchecked(importPath, componentPath) ==
  IF importPath = <<>> \/ componentPath = <<>> THEN Undefined
  ELSE IF ~StartsWith(importPath, <<".", "/">>) THEN Undefined
  ELSE IF Includes(importPath, <<".", ".", "/">>) THEN Undefined
  ELSE IF StartsWith(importPath, <<"@", "/">>) \/ StartsWith(importPath, <<"~">>)
       THEN Undefined
  ELSE Found(PathNormalize(PathResolve(Dirname(componentPath), Substring2(importPath))))

\* PathResolver.resolveImportPath; null is Undefined.
ResolveImportPath(importPath, componentPath) ==
  IF importPath = <<>> \/ componentPath = <<>> THEN Undefined
  ELSE IF ~StartsWith(importPath, <<".", "/">>) THEN Undefined
  ELSE IF Includes(importPath, <<".", ".", "/">>) THEN Undefined
  ELSE IF StartsWith(importPath, <<"@", "/">>) \/ StartsWith(importPath, <<"~">>)
       THEN Undefined
  ELSE LET filename == Substring2(importPath)
           componentDir == Dirname(componentPath)
           resolvedPath == PathResolve(componentDir, filename)
           normalizedPath == PathNormalize(resolvedPath)
       IN IF ~ExistsSync(normalizedPath) THEN Undefined ELSE Found(normalizedPath)

\* The component file /d/c, and no path at all.
ComponentFile == <<"/", "d", "/", "c">>
ComponentFiles == {ComponentFile, <<>>}
\* Its directory and the directories above it are there; a file x may be
\* there beside the component, in the root, and in a directory x beside the
\* component.
Directories == {<<"/">>, <<"/", "d">>}
BesideComponent == <<"/", "d", "/", "x">>
InRoot == <<"/", "x">>
InSubdirectory == <<"/", "d", "/", "x", "/", "x">>
SomeFile == [exists |-> TRUE, mtimeMs |-> 1, content |-> {}]
ResolverDisks ==
  {d \in [Directories \cup {BesideComponent, InRoot, InSubdirectory} -> {NoFile, SomeFile}] :
     /\ \A p \in Directories : d[p].exists
     /\ d[InSubdirectory].exists => d[BesideComponent].exists}

\* The engine as constructed; the state of the parsers' specifications but
\* for the disk and the call.
Constructed ==
  /\ now = 1
  /\ index = EmptyMap
  /\ fileCache = EmptyMap
  /\ cssFileToComponents = EmptyMap
  /\ parsed = <<>>
  /\ imports = EmptyMap
  /\ cssFileChangeTimers = EmptyMap
  /\ componentChangeTimers = EmptyMap
  /\ scheduled = {}
  /\ watch = EmptyMap
  /\ cancelled = {}
  /\ waiting = EmptyMap
  /\ inflight = {}
  /\ heap = NoObjects
  /\ ret = Undefined
  /\ last = [op |-> "new", path |-> EmptyPath, requested |-> {}, deps |-> {},
             status |-> "resolved"]
engineVars == <<now, index, fileCache, cssFileToComponents, parsed, imports,
                cssFileChangeTimers, componentChangeTimers, scheduled, watch,
                cancelled, waiting, inflight, heap>>

\* A call of resolveImportPath.
ResolveImportPathCall ==
  /\ last.op = "new"
  /\ ret' = ResolveImportPath(call.importPath, call.componentPath)
  /\ last' = [last EXCEPT !.op = "resolveImportPath"]
  /\ UNCHANGED <<disk, call, engineVars>>

\* resolveImportPath called once, with any import path, for the component
\* file or for none, on any such disk.
InitResolve ==
  /\ Constructed
  /\ disk \in ResolverDisks
  /\ call \in [importPath : Strings(MaxPathLen), componentPath : ComponentFiles]
NextResolve == ResolveImportPathCall
SpecResolve == InitResolve /\ [][NextResolve]_vars

\* ------------------------------------------------------------- import parser
\* The import statements of a component file, each on a line of its own and
\* each given as the path between its quotes.
CssSuffix == <<".", "c", "s", "s">>
SameDirImport == <<".", "/", "x">> \o CssSuffix
OtherSameDirImport == <<".", "/", "y">> \o CssSuffix
SubdirImport == <<".", "/", "x", "/", "x">> \o CssSuffix
ParentInsideImport == <<".", "/", ".", ".", "/", "x">> \o CssSuffix
ParentImport == <<".", ".", "/", "x">> \o CssSuffix
AliasImport == <<"@", "/", "x">> \o CssSuffix
NotCssImport == <<".", "/", "x">>
ImportSamples == {SameDirImport, OtherSameDirImport, SubdirImport, ParentInsideImport,
                  ParentImport, AliasImport, NotCssImport}
ComponentContents(most) == UNION {[1..n -> ImportSamples] : n \in 0..most}

\* The CSS files that may be there: x.css and y.css beside the component and
\* x.css in the directory x beside it.
CssBeside == <<"/", "d", "/", "x">> \o CssSuffix
OtherCssBeside == <<"/", "d", "/", "y">> \o CssSuffix
CssInSubdirectory == <<"/", "d", "/", "x", "/", "x">> \o CssSuffix
ImportDisks ==
  {d \in [Directories \cup {CssBeside, OtherCssBeside, CssInSubdirectory}
            -> {NoFile, SomeFile}] : \A p \in Directories : d[p].exists}

\* ImportParser.IMPORT_PATTERN on the path of an import statement: the path
\* group is ./ followed by at least one character and .css.
EndsWith(s, suffix) ==
  Len(s) >= Len(suffix) /\ SubSeq(s, Len(s) - Len(suffix) + 1, Len(s)) = suffix
ImportPatternMatches(p) ==
  /\ StartsWith(p, <<".", "/">>)
  /\ EndsWith(p, CssSuffix)
  /\ Len(p) >= 2 + 1 + Len(CssSuffix)

\* The ImportStatement constructor throws on these.
\* ImportStatement.isAbsolute: a leading separator, or /^[A-Za-z]:/ for the
\* letters the paths here are made of.
DriveLetters == {"x"}
IsAbsolute(filePath) ==
  \/ StartsWith(filePath, <<"/">>)
  \/ Len(filePath) >= 2 /\ filePath[1] \in DriveLetters /\ filePath[2] = ":"
ImportStatementThrows(importPath, resolvedPath, componentPath, lineNumber) ==
  \/ importPath = <<>> \/ ~StartsWith(importPath, <<".", "/">>)
  \/ resolvedPath = <<>> \/ ~IsAbsolute(resolvedPath)
  \/ componentPath = <<>> \/ ~IsAbsolute(componentPath)
  \/ lineNumber < 1

\* A loop that the first import it cannot use ends.
RECURSIVE ExtractLoopAbort(_, _, _, _)
ExtractLoopAbort(content, filePath, i, found) ==
  IF i > Len(content) THEN found
  ELSE LET importPath == content[i]
           resolvedPath == ResolveImportPath(importPath, filePath)
       IN IF ~ImportPatternMatches(importPath)
          THEN ExtractLoopAbort(content, filePath, i + 1, found)
          ELSE IF \/ ~StartsWith(importPath, <<".", "/">>)
                  \/ Includes(importPath, <<".", ".", "/">>)
                  \/ StartsWith(importPath, <<"@", "/">>)
                  \/ StartsWith(importPath, <<"~">>)
                  \/ resolvedPath = Undefined
                  \/ ImportStatementThrows(importPath, resolvedPath[1], filePath, i)
               THEN found
               ELSE ExtractLoopAbort(content, filePath, i + 1,
                      Append(found, [importPath |-> importPath,
                                     resolvedPath |-> resolvedPath[1],
                                     componentPath |-> filePath,
                                     lineNumber |-> i]))

\* ImportParser.extractImportPaths: the loop over the matches of the pattern,
\* from statement i on.
RECURSIVE ExtractLoop(_, _, _, _)
ExtractLoop(content, filePath, i, found) ==
  IF i > Len(content) THEN found
  ELSE LET importPath == content[i]
           resolvedPath == ResolveImportPath(importPath, filePath)
       IN IF ~ImportPatternMatches(importPath)
          THEN ExtractLoop(content, filePath, i + 1, found)
          ELSE IF ~StartsWith(importPath, <<".", "/">>) \/ Includes(importPath, <<".", ".", "/">>)
               THEN ExtractLoop(content, filePath, i + 1, found)
          ELSE IF StartsWith(importPath, <<"@", "/">>) \/ StartsWith(importPath, <<"~">>)
               THEN ExtractLoop(content, filePath, i + 1, found)
          ELSE IF resolvedPath = Undefined
               THEN ExtractLoop(content, filePath, i + 1, found)
          ELSE IF ImportStatementThrows(importPath, resolvedPath[1], filePath, i)
               THEN ExtractLoop(content, filePath, i + 1, found)
          ELSE ExtractLoop(content, filePath, i + 1,
                 Append(found, [importPath |-> importPath,
                                resolvedPath |-> resolvedPath[1],
                                componentPath |-> filePath,
                                lineNumber |-> i]))

\* ImportParser.extractImportPaths
ExtractImportPaths(content, filePath) ==
  IF content = <<>> \/ filePath = <<>> THEN <<>>
  ELSE ExtractLoop(content, filePath, 1, <<>>)

\* A call of extractImportPaths; whatever is thrown inside it is caught.
ExtractImportPathsCall ==
  /\ last.op = "new"
  /\ ret' = ExtractImportPaths(call.content, call.filePath)
  /\ last' = [last EXCEPT !.op = "extractImportPaths"]
  /\ UNCHANGED <<disk, call, engineVars>>

\* extractImportPaths called once, on any content of up to MaxImports import
\* statements, for the component file or for none, on any such disk.
InitExtract ==
  /\ Constructed
  /\ disk \in ImportDisks
  /\ call \in [content : ComponentContents(MaxImports), filePath : ComponentFiles]
NextExtract == ExtractImportPathsCall
SpecExtract == InitExtract /\ [][NextExtract]_vars

\* new ImportStatement(importPath, resolvedPath, componentPath, lineNumber),
\* called once: it throws or it returns the statement.
NewImportStatement ==
  /\ last.op = "new"
  /\ ret' = IF ImportStatementThrows(call.importPath, call.resolvedPath,
                                     call.componentPath, call.lineNumber)
            THEN "throws"
            ELSE Found(call)
  /\ last' = [last EXCEPT !.op = "ImportStatement"]
  /\ UNCHANGED <<disk, call, engineVars>>

\* The constructor on any import path of up to MaxPathLen characters, on
\* resolved and component paths that are empty, rooted, relative or start
\* with a drive letter, and on line numbers around 1.
ImportPathChars == {".", "/", "x"}
PathSamples(most) == UNION {[1..k -> ImportPathChars] : k \in 0..most}
AbsoluteSamples == {<<>>, <<"/", "x">>, <<"x">>, <<".", "/", "x">>, <<"x", ":", "/", "x">>}
LineNumbers == {-1, 0, 1, 2}
InitConstruct ==
  /\ Constructed
  /\ disk \in [CssPaths -> {NoFile}]
  /\ call \in [importPath : PathSamples(MaxPathLen), resolvedPath : AbsoluteSamples,
                componentPath : AbsoluteSamples, lineNumber : LineNumbers]
NextConstruct == NewImportStatement
SpecConstruct == InitConstruct /\ [][NextConstruct]_vars

\* ------------------------------------------------------------- CSS parser
\* A CSS text is a sequence of one-character strings, as a path is.
Whitespace == {" ", "\n"}
Quotes == {"'", "\""}
\* [a-zA-Z_-] and [a-zA-Z0-9_-], for the letters the texts here are made of.
NameStart == {"a", "b", "p", "q", "_", "-"}
NameChar == NameStart \cup {"0", "1", "2", "3", "4", "5", "6", "7", "8", "9"}

\* String.prototype.trim
RECURSIVE TrimStart(_)
TrimStart(s) == IF s # <<>> /\ s[1] \in Whitespace THEN TrimStart(Tail(s)) ELSE s
RECURSIVE TrimEnd(_)
TrimEnd(s) ==
  IF s # <<>> /\ s[Len(s)] \in Whitespace THEN TrimEnd(SubSeq(s, 1, Len(s) - 1)) ELSE s
Trim(s) == TrimEnd(TrimStart(s))

\* content.replace(/\/\*[\s\S]*?\*\//g, ''): a comment runs from /* to the
\* first */ behind it; a /* that nothing closes stays.
Closes(s, i) == {j \in i..(Len(s) - 1) : s[j] = "*" /\ s[j + 1] = "/"}
Least(S) == CHOOSE x \in S : \A y \in S : x <= y
RECURSIVE RemoveBlockComments(_, _)
RemoveBlockComments(s, i) ==
  IF i > Len(s) THEN <<>>
  ELSE IF i < Len(s) /\ s[i] = "/" /\ s[i + 1] = "*" /\ Closes(s, i + 2) # {}
       THEN RemoveBlockComments(s, Least(Closes(s, i + 2)) + 2)
       ELSE <<s[i]>> \o RemoveBlockComments(s, i + 1)
\* result.replace(/\/\/.*$/gm, ''): from // to the end of its line, the line
\* break staying.
RECURSIVE RemoveLineComments(_, _, _)
RemoveLineComments(s, i, inComment) ==
  IF i > Len(s) THEN <<>>
  ELSE IF s[i] = "\n" THEN <<"\n">> \o RemoveLineComments(s, i + 1, FALSE)
  ELSE IF inComment THEN RemoveLineComments(s, i + 1, TRUE)
  ELSE IF i < Len(s) /\ s[i] = "/" /\ s[i + 1] = "/"
       THEN RemoveLineComments(s, i + 2, TRUE)
  ELSE <<s[i]>> \o RemoveLineComments(s, i + 1, FALSE)
\* CSSParser.removeComments
RemoveComments(content) ==
  RemoveLineComments(RemoveBlockComments(content, 1), 1, FALSE)

\* The last character of the name that starts at i, and the first position
\* at or after i that holds no whitespace.
RECURSIVE NameEnd(_, _)
NameEnd(s, i) == IF i < Len(s) /\ s[i + 1] \in NameChar THEN NameEnd(s, i + 1) ELSE i
RECURSIVE SkipWhitespace(_, _)
SkipWhitespace(s, i) ==
  IF i <= Len(s) /\ s[i] \in Whitespace THEN SkipWhitespace(s, i + 1) ELSE i

\* A pattern that takes every class token, whatever follows it.
ClassPatternAtAnyToken(s, i) ==
  IF s[i] = "." /\ i < Len(s) /\ s[i + 1] \in NameStart THEN NameEnd(s, i + 1) ELSE 0

\* CSSParser.CLASS_PATTERN tried at position i: the position at which the
\* match ends (its brace), or 0 if there is no match at i.
ClassPatternAt(s, i) ==
  IF s[i] = "." /\ i < Len(s) /\ s[i + 1] \in NameStart
  THEN LET brace == SkipWhitespace(s, NameEnd(s, i + 1) + 1)
       IN IF brace <= Len(s) /\ s[brace] = "{" THEN brace ELSE 0
  ELSE 0

\* content.split('\n')
RECURSIVE SplitLines(_, _, _)
SplitLines(s, i, line) ==
  IF i > Len(s) THEN <<line>>
  ELSE IF s[i] = "\n" THEN <<line>> \o SplitLines(s, i + 1, <<>>)
  ELSE SplitLines(s, i + 1, Append(line, s[i]))
\* The loop that finds the line of a match; matchStart counts from 0.
RECURSIVE LineLoop(_, _, _, _)
LineLoop(lines, i, charCount, matchStart) ==
  IF i > Len(lines) THEN 1
  ELSE IF charCount + Len(lines[i]) + 1 > matchStart THEN i
  ELSE LineLoop(lines, i + 1, charCount + Len(lines[i]) + 1, matchStart)

\* CSSParser.extractClassDefinition: the position of the brace that closes
\* the one at pos, or 0; stringChar is "" outside a string.
RECURSIVE ClosingBrace(_, _, _, _)
ClosingBrace(s, pos, braceCount, stringChar) ==
  IF pos > Len(s) THEN 0
  ELSE LET char == s[pos]
       IN IF stringChar = "" /\ char \in Quotes
          THEN ClosingBrace(s, pos + 1, braceCount, char)
          ELSE IF stringChar # "" /\ char = stringChar /\ s[pos - 1] # "\\"
          THEN ClosingBrace(s, pos + 1, braceCount, "")
          ELSE IF stringChar = "" /\ char = "{"
          THEN ClosingBrace(s, pos + 1, braceCount + 1, "")
          ELSE IF stringChar = "" /\ char = "}"
          THEN IF braceCount - 1 = 0 THEN pos
               ELSE ClosingBrace(s, pos + 1, braceCount - 1, "")
          ELSE ClosingBrace(s, pos + 1, braceCount, stringChar)
ExtractClassDefinition(content, selectorStart, braceStart) ==
  LET close == ClosingBrace(content, braceStart, 0, "")
  IN Trim(SubSeq(content, selectorStart, IF close # 0 THEN close ELSE Len(content)))

\* CSSParser.findClassMatches: the loop of CLASS_PATTERN.exec, from
\* position i on.
RECURSIVE FindLoop(_, _, _)
FindLoop(content, i, matches) ==
  IF i > Len(content) THEN matches
  ELSE LET brace == ClassPatternAt(content, i)
           definition == ExtractClassDefinition(content, i, brace)
       IN IF brace = 0 THEN FindLoop(content, i + 1, matches)
          ELSE FindLoop(content, brace + 1,
                 IF definition = <<>> THEN matches
                 ELSE Append(matches,
                        [className |-> SubSeq(content, i + 1, NameEnd(content, i + 1)),
                         definition |-> definition,
                         lineNumber |-> LineLoop(SplitLines(content, 1, <<>>), 1, 0, i - 1),
                         matchIndex |-> i - 1]))
FindClassMatches(content) == FindLoop(content, 1, <<>>)

\* The CSSClass constructor throws on these.
CSSClassThrows(name, lineNumber) ==
  \/ name = <<>>
  \/ name[1] \notin NameStart
  \/ \E i \in 1..Len(name) : name[i] \notin NameChar
  \/ lineNumber < 1
\* new CSSClass(className, sourceFile, lineNumber, properties, classDefinition)
NewCSSClass(match, sourceFile) ==
  [name |-> match.className, sourceFile |-> sourceFile,
   lineNumber |-> match.lineNumber, fullDefinition |-> match.definition]

\* A loop in which every occurrence of a name overwrites classes[name].
RECURSIVE ClassLoopLastWins(_, _, _, _)
ClassLoopLastWins(matches, i, classes, allOccurrences) ==
  IF i > Len(matches) THEN [classes |-> classes, allOccurrences |-> allOccurrences]
  ELSE LET cssClass == NewCSSClass(matches[i], <<>>)
           className == matches[i].className
           occurrences == IF className \in DOMAIN allOccurrences
                          THEN allOccurrences[className] ELSE <<>>
       IN ClassLoopLastWins(matches, i + 1,
            MapSet(classes, className, cssClass),
            MapSet(allOccurrences, className, Append(occurrences, cssClass)))
ExtractClassesLastWins(cssContent) ==
  IF Trim(cssContent) = <<>> THEN [classes |-> EmptyMap, allOccurrences |-> EmptyMap]
  ELSE ClassLoopLastWins(FindClassMatches(RemoveComments(cssContent)), 1,
                         EmptyMap, EmptyMap)

\* CSSParser.extractClasses: the loop over the class matches, from match i on.
RECURSIVE ClassLoop(_, _, _, _)
ClassLoop(matches, i, classes, allOccurrences) ==
  IF i > Len(matches) THEN [classes |-> classes, allOccurrences |-> allOccurrences]
  ELSE LET cssClass == NewCSSClass(matches[i], <<>>)
           className == matches[i].className
           occurrences == IF className \in DOMAIN allOccurrences
                          THEN allOccurrences[className] ELSE <<>>
       IN IF CSSClassThrows(className, matches[i].lineNumber)
          THEN ClassLoop(matches, i + 1, classes, allOccurrences)
          ELSE ClassLoop(matches, i + 1,
                 IF className \in DOMAIN classes THEN classes
                 ELSE MapSet(classes, className, cssClass),
                 MapSet(allOccurrences, className, Append(occurrences, cssClass)))

\* CSSParser.extractClasses
ExtractClasses(cssContent) ==
  IF Trim(cssContent) = <<>> THEN [classes |-> EmptyMap, allOccurrences |-> EmptyMap]
  ELSE ClassLoop(FindClassMatches(RemoveComments(cssContent)), 1, EmptyMap, EmptyMap)

\* A class again, with its source file filled in.
WithSourceFile(cssClass, filePath) == [cssClass EXCEPT !.sourceFile = filePath]

\* CSSParser.parseCSSContent, with the occurrences of every class.
ParseCSSContentOccurrences(content, filePath) ==
  LET extracted == ExtractClasses(content)
      classes == [k \in DOMAIN extracted.classes |->
                    WithSourceFile(extracted.classes[k], filePath)]
      updatedAllOccurrences ==
        [k \in DOMAIN extracted.allOccurrences |->
           [j \in 1..Len(extracted.allOccurrences[k]) |->
              WithSourceFile(extracted.allOccurrences[k][j], filePath)]]
  IN [filePath |-> filePath,
      lastModified |-> IF ExistsSync(filePath) THEN disk[filePath].mtimeMs ELSE now,
      classes |-> classes,
      rawContent |-> content,
      allClassOccurrences |-> updatedAllOccurrences]

\* A call of extractClasses, and one of parseCSSContent.
ExtractClassesCall ==
  /\ last.op = "new"
  /\ ret' = ExtractClasses(call.cssContent)
  /\ last' = [last EXCEPT !.op = "extractClasses"]
  /\ UNCHANGED <<disk, call, engineVars>>
ParseCSSContentCall ==
  /\ last.op = "new"
  /\ ret' = ParseCSSContentOccurrences(call.cssContent, call.filePath)
  /\ last' = [last EXCEPT !.op = "parseCSSContent"]
  /\ UNCHANGED <<disk, call, engineVars>>

\* The content of a well-formed CSS file: its rules, in source order, each on
\* a line of its own, each a class name and a declaration block.  The same
\* name may come again, with the same block or another.
RuleNames == {"a", "b"}
RuleBlocks == {"p", "q"}
RuleLists(most) == UNION {[1..n -> [className : RuleNames, definition : RuleBlocks]] :
                            n \in 0..most}
RuleText(rule) == <<".", rule.className, "{", rule.definition, "}">>
RECURSIVE Concat(_)
Concat(parts) == IF parts = <<>> THEN <<>> ELSE Head(parts) \o Concat(Tail(parts))
CssContent(rules) == Concat([i \in 1..Len(rules) |-> RuleText(rules[i]) \o <<"\n">>])
CssContents(most) == {CssContent(rules) : rules \in RuleLists(most)}

\* One of the two called once, on any content of up to MaxRules rules, for a
\* CSS file that is there or not.
InitParse ==
  /\ Constructed
  /\ disk \in ImportDisks
  /\ call \in {[cssContent |-> CssContent(rules), rules |-> rules, filePath |-> CssBeside] :
                 rules \in RuleLists(MaxRules)}
NextParse ==
  \/ ExtractClassesCall
  \/ ParseCSSContentCall
SpecParse == InitParse /\ [][NextParse]_vars

\* Any CSS text: up to MaxLexemes of class tokens, whitespace, line breaks,
\* braces and comment marks, in any order.
Lexemes == {<<".", "a">>, <<".", "b">>, <<" ">>, <<"\n">>, <<"{">>, <<"}">>,
            <<"/", "*">>, <<"*", "/">>}
CssTexts(most) == {Concat(l) : l \in UNION {[1..n -> Lexemes] : n \in 0..most}}
DiskWithCss == [p \in Directories \cup {CssBeside} |-> SomeFile]

\* One of the two called once on any such text, for a CSS file that is there.
InitScan ==
  /\ Constructed
  /\ disk = DiskWithCss
  /\ call \in [cssContent : CssTexts(MaxLexemes), filePath : {CssBeside}]
SpecScan == InitScan /\ [][NextParse]_vars

\* ------------------------------------------------------------- providers
\* The text of a component document is a sequence of lexemes: the attribute
\* name, the equals sign, a quote, a word, a blank, a line break.  A run of
\* words with no whitespace between them is one class-name token; the class
\* names the CSS files here define are the one-word tokens a and b.
StyleName == "styleName"
Words == {"a", "b", "9"}
Separators == {" ", "\n"}
ReactLanguageIds == {"typescriptreact", "javascriptreact", "typescript", "javascript"}

\* DiagnosticProvider.isValidClassName
IsValidClassName(className) ==
  /\ className # <<>>
  /\ className[1] \in NameStart
  /\ \A i \in 1..Len(className) : className[i] \in NameChar

\* ComponentIndex.hasClass
HasClass(componentIndex, className) ==
  Len(className) = 1 /\ className[1] \in DOMAIN componentIndex.allClasses

\* The first position at or after i that holds a quote.
RECURSIVE ValueEnd(_, _)
ValueEnd(line, i) ==
  IF i <= Len(line) /\ line[i] \notin Quotes THEN ValueEnd(line, i + 1) ELSE i

\* /styleName\s*=\s*(["'])([^"']*)\1/ tried at position i of a line.
AttributeAt(line, i) ==
  LET eq == SkipWhitespace(line, i + 1)
      quote == SkipWhitespace(line, eq + 1)
      close == ValueEnd(line, quote + 1)
  IN IF /\ line[i] = StyleName
        /\ eq <= Len(line) /\ line[eq] = "="
        /\ quote <= Len(line) /\ line[quote] \in Quotes
        /\ close <= Len(line) /\ line[close] = line[quote]
     THEN Found([value |-> SubSeq(line, quote + 1, close - 1), close |-> close])
     ELSE Undefined

\* const lines = text.split('\n')
DiagnosticLines(text) == SplitLines(text, 1, <<>>)

\* DiagnosticProvider.findStyleNameAttributes: the loop of regex.exec, from
\* position i on.
RECURSIVE FindStyleNameAttributes(_, _, _)
FindStyleNameAttributes(line, i, matches) ==
  IF i > Len(line) THEN matches
  ELSE LET a == AttributeAt(line, i)
       IN IF a = Undefined THEN FindStyleNameAttributes(line, i + 1, matches)
          ELSE FindStyleNameAttributes(line, a[1].close + 1, Append(matches, a[1].value))

\* value.split(/(\s+)/) without the whitespace parts.
RECURSIVE SplitWords(_, _, _)
SplitWords(value, i, word) ==
  IF i > Len(value) THEN (IF word = <<>> THEN <<>> ELSE <<word>>)
  ELSE IF value[i] \in Whitespace
       THEN (IF word = <<>> THEN <<>> ELSE <<word>>) \o SplitWords(value, i + 1, <<>>)
       ELSE SplitWords(value, i + 1, Append(word, value[i]))

\* DiagnosticProvider.extractClassNamesWithPositions: the class names of valid
\* format, in order.
ExtractClassNamesWithPositions(value) ==
  SelectSeq(SplitWords(value, 1, <<>>), IsValidClassName)

\* The scanning loops of updateDiagnostics: one diagnostic for every class
\* name of every attribute of every line that the index does not have.
NewDiagnostic(lineIndex, className) ==
  [line |-> lineIndex, className |-> className, severity |-> "Information",
   source |-> "localCssSense"]
LineDiagnostics(line, lineIndex, componentIndex) ==
  LET values == FindStyleNameAttributes(line, 1, <<>>)
      absent(className) == ~HasClass(componentIndex, className)
  IN Concat([v \in 1..Len(values) |->
       LET names == SelectSeq(ExtractClassNamesWithPositions(values[v]), absent)
       IN [n \in 1..Len(names) |-> NewDiagnostic(lineIndex, names[n])]])
Diagnose(text, componentIndex) ==
  LET lines == DiagnosticLines(text)
  IN Concat([l \in 1..Len(lines) |-> LineDiagnostics(lines[l], l - 1, componentIndex)])

\* DiagnosticProvider.updateDiagnostics on a document: its language, the
\* resolved paths of its CSS imports (ImportParser.parseImports), its text.
\* ret is what diagnosticCollection.set receives.
UpdateDiagnostics(componentPath, document) ==
  LET cssFilePaths == document.imports
      S0 == [Engine EXCEPT !.rev = RemoveComponentFromReverseMapping(
                                     index, cssFileToComponents, componentPath)]
      S1 == Advance(S0, componentPath, cssFilePaths, 1, <<>>)
      done(status) == [op |-> "updateDiagnostics", path |-> componentPath,
                       requested |-> Range(cssFilePaths), deps |-> {}, status |-> status]
  IN /\ call' = [fn |-> "updateDiagnostics", componentPath |-> componentPath,
                 document |-> document]
     /\ IF document.languageId \notin ReactLanguageIds \/ cssFilePaths = <<>>
        THEN /\ ret' = <<>>
             /\ last' = done("resolved")
             /\ parsed' = <<>>
             /\ UNCHANGED <<index, fileCache, cssFileToComponents>>
        ELSE IF componentPath \in DOMAIN index
        THEN /\ ret' = Diagnose(document.text, index[componentPath])
             /\ last' = done("resolved")
             /\ parsed' = <<>>
             /\ UNCHANGED <<index, fileCache, cssFileToComponents>>
        ELSE \E S2 \in Outcomes(S1) :
               /\ Install(S2)
               /\ last' = done("resolved")
               /\ ret' = IF S2.threw \/ componentPath \notin DOMAIN S2.index THEN <<>>
                         ELSE Diagnose(document.text, S2.index[componentPath])
     /\ UNCHANGED fsVars

\* Documents: one attribute or two, with up to MaxTokens words in all, the
\* words of a value a blank or a line break apart, the attributes too.
RECURSIVE AttributeValues(_)
AttributeValues(n) ==
  IF n = 0 THEN {<<>>}
  ELSE IF n = 1 THEN {<<w>> : w \in Words}
  ELSE {v \o <<s, w>> : v \in AttributeValues(n - 1), s \in Separators, w \in Words}
Attribute(value) == <<StyleName, "=", "\"">> \o value \o <<"\"">>
WordsOf(value) == SelectSeq(value, LAMBDA x : x \in Words)
DocumentTexts(most) ==
  UNION {{[text |-> Attribute(v), words |-> WordsOf(v)] : v \in AttributeValues(n)} :
           n \in 0..most}
  \cup UNION {{[text |-> Attribute(v) \o <<s>> \o Attribute(w),
                words |-> WordsOf(v) \o WordsOf(w)] :
                 v \in AttributeValues(n[1]), w \in AttributeValues(n[2]), s \in Separators} :
              n \in {m \in (0..most) \X (0..most) : m[1] + m[2] <= most}}
\* The imports of a document resolve: their files are there.
Resolvable(cssFilePaths) == \A i \in 1..Len(cssFilePaths) : disk[cssFilePaths[i]].exists

\* A React document with any of the texts, and one of another language.
Documents(most) ==
  {[languageId |-> "typescriptreact", text |-> t.text, words |-> t.words] :
     t \in DocumentTexts(most)}
  \cup {[languageId |-> "plaintext", text |-> Attribute(<<"b">>), words |-> <<"b">>]}

\* The component is indexed or not, and updateDiagnostics runs once on a
\* document.
NextDiagnostics ==
  \/ /\ call = <<>>
     /\ \E c \in WatchedComponents, l \in PathLists :
          /\ IndexComponent(c, l)
          /\ UNCHANGED <<imports, watch, timerVars, cancelled, restVars>>
  \/ /\ call = <<>>
     /\ \E c \in WatchedComponents, d \in Documents(MaxTokens), l \in PathLists :
          /\ Resolvable(l)
          /\ UpdateDiagnostics(c, [languageId |-> d.languageId, imports |-> l,
                                   text |-> d.text, words |-> d.words])
          /\ UNCHANGED <<imports, watch, timerVars, cancelled, waiting, inflight, heap>>
SpecDiagnostics == Init /\ [][NextDiagnostics]_vars

\* ------------------------------------------------------------- completion
\* beforeCursor.match(/styleName\s*=\s*(["'])/): the position of the quote of
\* the match at i, and of the first match of the text; 0 if there is none.
OpeningQuoteAt(s, i) ==
  LET eq == SkipWhitespace(s, i + 1)
      quote == SkipWhitespace(s, eq + 1)
  IN IF /\ s[i] = StyleName
        /\ eq <= Len(s) /\ s[eq] = "="
        /\ quote <= Len(s) /\ s[quote] \in Quotes
     THEN quote ELSE 0
StyleNameMatch(s) ==
  LET found == {i \in 1..Len(s) : OpeningQuoteAt(s, i) # 0}
  IN IF found = {} THEN 0 ELSE OpeningQuoteAt(s, Least(found))

\* CompletionProvider.isInStyleNameAttribute; offset is position.character.
IsInStyleNameAttribute(text, offset) ==
  LET beforeCursor == SubSeq(text, 1, offset)
      quoteStart == StyleNameMatch(beforeCursor)
      afterQuote == SubSeq(text, quoteStart + 1, offset)
  IN /\ quoteStart # 0
     /\ offset > quoteStart - 1
     /\ \A i \in 1..Len(afterQuote) : afterQuote[i] # text[quoteStart]

\* CompletionProvider.getExistingClasses
GetExistingClasses(text, offset) ==
  LET beforeCursor == SubSeq(text, 1, offset)
      quoteStart == StyleNameMatch(beforeCursor)
  IN IF quoteStart = 0 THEN <<>>
     ELSE SelectSeq(SplitWords(SubSeq(beforeCursor, quoteStart + 1, offset), 1, <<>>),
                    IsValidClassName)

\* CompletionProvider.findMediaQueryContext: the loop that walks back from the
\* line before the class to the nearest line with @media; the index of that
\* line, or 0.
BraceBalance(line) ==
  Cardinality({i \in 1..Len(line) : line[i] = "{"})
    - Cardinality({i \in 1..Len(line) : line[i] = "}"})
RECURSIVE MediaQueryStart(_, _, _, _)
MediaQueryStart(lines, i, braceCount, inMediaQuery) ==
  IF i < 1 THEN 0
  ELSE IF \E j \in 1..Len(lines[i]) : lines[i][j] = "@media" THEN i
  ELSE LET count == braceCount + BraceBalance(lines[i])
       IN IF count > 0 THEN MediaQueryStart(lines, i - 1, count, TRUE)
          ELSE IF inMediaQuery /\ count = 0 THEN 0
          ELSE MediaQueryStart(lines, i - 1, count, inMediaQuery)
\* mediaQueryLines.join('\n')
RECURSIVE JoinLines(_)
JoinLines(lines) ==
  IF lines = <<>> THEN <<>>
  ELSE IF Len(lines) = 1 THEN lines[1]
  ELSE lines[1] \o <<"\n">> \o JoinLines(Tail(lines))
\* CompletionProvider.findMediaQueryContext; null is Undefined.
FindMediaQueryContext(cssContent, lineNumber) ==
  LET lines == SplitLines(cssContent, 1, <<>>)
      mediaQueryStart == MediaQueryStart(lines, lineNumber - 1, 0, FALSE)
      withBrace == {i \in mediaQueryStart..lineNumber :
                      i <= Len(lines) /\ \E j \in 1..Len(lines[i]) : lines[i][j] = "{"}
      fullMediaQuery == JoinLines(SubSeq(lines, mediaQueryStart, Least(withBrace)))
      braceIndex == Least({j \in 1..Len(fullMediaQuery) : fullMediaQuery[j] = "{"})
  IN IF cssContent = <<>> THEN Undefined
     ELSE IF lineNumber < 1 \/ lineNumber > Len(lines) THEN Undefined
     ELSE IF mediaQueryStart = 0 \/ withBrace = {} THEN Undefined
     ELSE Found(Trim(SubSeq(fullMediaQuery, 1, braceIndex - 1)))

\* ComponentIndex.getClassNames: Array.from(allClasses.keys()), in an order
\* that nothing here depends on.
RECURSIVE SetToSeq(_)
SetToSeq(S) ==
  IF S = {} THEN <<>>
  ELSE LET x == CHOOSE y \in S : TRUE IN <<x>> \o SetToSeq(S \ {x})
GetClassNames(componentIndex) == SetToSeq(DOMAIN componentIndex.allClasses)
\* ComponentIndex.getAllClasses: the occurrences of a class in the CSS files
\* of the component, file after file.
GetAllClasses(componentIndex, className) ==
  Concat([f \in 1..Len(componentIndex.cssFiles) |->
            IF className \in DOMAIN componentIndex.cssFiles[f].allClassOccurrences
            THEN componentIndex.cssFiles[f].allClassOccurrences[className] ELSE <<>>])
\* The content of the CSS file of an occurrence: the rawContent the index
\* holds, or else what is on disk.
CssFileContent(componentIndex, sourceFile) ==
  LET held == {f \in 1..Len(componentIndex.cssFiles) :
                 /\ componentIndex.cssFiles[f].filePath = sourceFile
                 /\ componentIndex.cssFiles[f].rawContent # <<>>}
  IN IF held # {} THEN componentIndex.cssFiles[CHOOSE f \in held : TRUE].rawContent
     ELSE <<>>
\* The occurrences that stand in no media query.
BaseInstances(componentIndex, allOccurrences) ==
  SelectSeq(allOccurrences,
            LAMBDA o : FindMediaQueryContext(CssFileContent(componentIndex, o.sourceFile),
                                             o.lineNumber) \in {Undefined, Found(<<>>)})

\* CompletionProvider.provideCompletionItems: the loop over the class names.
RECURSIVE CompletionLoop(_, _, _, _, _)
CompletionLoop(componentIndex, classNames, i, existingClasses, items) ==
  IF i > Len(classNames) THEN items
  ELSE LET className == classNames[i]
           allOccurrences == GetAllClasses(componentIndex, className)
           skip == \/ \E j \in 1..Len(items) : items[j].label = className
                   \/ allOccurrences = <<>>
                   \/ ~IsValidClassName(className)
                   \/ \E j \in 1..Len(existingClasses) : existingClasses[j] = className
                   \/ BaseInstances(componentIndex, allOccurrences) = <<>>
       IN CompletionLoop(componentIndex, classNames, i + 1, existingClasses,
            IF skip THEN items
            ELSE Append(items, [label |-> className, kind |-> "Class",
                                insertText |-> className]))

\* CompletionProvider.provideCompletionItems for a component that is indexed;
\* undefined is Undefined.
ProvideCompletionItems(document, position) ==
  LET componentIndex == index[document.fsPath]
  IN IF ~IsInStyleNameAttribute(document.text, position) THEN Undefined
     ELSE IF document.imports = <<>> THEN Undefined
     ELSE Found(CompletionLoop(componentIndex, GetClassNames(componentIndex), 1,
                               GetExistingClasses(document.text, position), <<>>))
ProvideCompletionItemsCall ==
  /\ last.op = "new"
  /\ call.document.fsPath \in DOMAIN index
  /\ ret' = ProvideCompletionItems(call.document, call.position)
  /\ last' = [last EXCEPT !.op = "provideCompletionItems"]
  /\ UNCHANGED <<disk, call, engineVars>>

\* new ComponentIndex(componentPath, cssFiles) for one parsed CSS file.
ComponentIndexOf(componentPath, cssFile) ==
  [componentPath |-> componentPath, cssFiles |-> <<cssFile>>,
   allClasses |-> cssFile.classes]

\* CSS files of up to MaxCssLines lines: a rule of class a, one of class b,
\* the opening of a media query, a closing brace.
CssLines == {<<".", "a", "{", "}">>, <<".", "b", "{", "}">>, <<"@media", "{">>, <<"}">>}
CssFileTexts(most) == {JoinLines(l) : l \in UNION {[1..n -> CssLines] : n \in 0..most}}

\* The line of the cursor: a styleName attribute, another before it on the
\* line or not, the cursor in its value behind what is typed of it, the
\* closing quote there or not yet; and lines with the cursor before the
\* attribute and behind it.
TypedValues == {<<>>, <<"a">>, <<"b">>, <<"a", " ">>, <<"a", " ", "b">>}
CursorLines ==
  {[text |-> before \o <<StyleName, "=", "\"">> \o typed \o after,
    position |-> Len(before) + 3 + Len(typed),
    inValue |-> TRUE,
    typed |-> typed] :
     before \in {<<>>, Attribute(<<"a">>) \o <<" ">>},
     typed \in TypedValues,
     after \in {<<>>, <<"\"">>}}
  \cup {[text |-> Attribute(<<"a">>), position |-> p, inValue |-> FALSE, typed |-> <<>>] :
          p \in {0, Len(Attribute(<<"a">>))}}

\* provideCompletionItems called once, for the indexed component file whose
\* one CSS file is any of the texts.
InitCompletion ==
  /\ disk = DiskWithCss
  /\ now = 1
  /\ \E css \in CssFileTexts(MaxCssLines) :
       index = [c \in {ComponentFile} |->
                  ComponentIndexOf(c, ParseCSSContentOccurrences(css, CssBeside))]
  /\ fileCache = EmptyMap
  /\ cssFileToComponents = EmptyMap
  /\ parsed = <<>>
  /\ imports = EmptyMap
  /\ cssFileChangeTimers = EmptyMap
  /\ componentChangeTimers = EmptyMap
  /\ scheduled = {}
  /\ watch = EmptyMap
  /\ cancelled = {}
  /\ waiting = EmptyMap
  /\ inflight = {}
  /\ heap = NoObjects
  /\ ret = Undefined
  /\ last = [op |-> "new", path |-> EmptyPath, requested |-> {}, deps |-> {},
             status |-> "resolved"]
  /\ \E l \in CursorLines, i \in {<<>>, <<CssBeside>>} :
       call = [document |-> [fsPath |-> ComponentFile, imports |-> i, text |-> l.text,
                             inValue |-> l.inValue, typed |-> l.typed],
               position |-> l.position]
NextCompletion == ProvideCompletionItemsCall
SpecCompletion == InitCompletion /\ [][NextCompletion]_vars

\* isInStyleNameAttribute as the hover, the definition and the completion
\* provider have it (the three bodies decide alike), called once for a line
\* and a cursor offset.
IsInStyleNameAttributeCall ==
  /\ last.op = "new"
  /\ ret' = IsInStyleNameAttribute(call.text, call.offset)
  /\ last' = [last EXCEPT !.op = "isInStyleNameAttribute"]
  /\ UNCHANGED <<disk, call, engineVars>>

\* The lines: up to MaxLexemes pieces, each the opening of a styleName
\* attribute (with either quote, or with blanks around the equals sign), a
\* class name, or a quote; the cursor at any offset of the line.
LinePieces ==
  {<<StyleName, "=", "\"">>, <<StyleName, "=", "'">>, <<StyleName, " ", "=", " ", "\"">>,
   <<"a">>, <<"\"">>, <<"'">>}
AttributeLines(most) == {Concat(l) : l \in UNION {[1..n -> LinePieces] : n \in 0..most}}
InitAttribute ==
  /\ Constructed
  /\ disk \in [CssPaths -> {NoFile}]
  /\ \E text \in AttributeLines(MaxLexemes) : \E offset \in 0..Len(text) :
       call = [text |-> text, offset |-> offset]
NextAttribute == IsInStyleNameAttributeCall
SpecAttribute == InitAttribute /\ [][NextAttribute]_vars

\* ------------------------------------------------------------- suspended calls
\* The operations as the event loop runs them: an indexComponent call that
\* reaches `await parseCSSFile` is suspended, and other operations, file-system
\* steps and other calls run before it goes on.  A suspended call is kept as
\*   id        - which of the calls in flight it is,
\*   task      - where it stands, as Advance leaves it,
\*   read      - what fs.promises.readFile delivered, once it has,
\*   overtaken - the invalidations (handleComponentChange, removeCSSFile of a
\*               file the component depends on, clear) that ran since the
\*               call started.
FreeIds == (1..MaxInFlight) \ {w.id : w \in inflight}
RECURSIVE Suspend(_, _)
Suspend(tasks, ids) ==
  IF tasks = {} THEN {}
  ELSE LET t == CHOOSE x \in tasks : TRUE
           i == Least(ids)
       IN {[id |-> i, task |-> t, read |-> <<>>, overtaken |-> {}]}
            \cup Suspend(tasks \ {t}, ids \ {i})
Overtake(calls, op) == {[w EXCEPT !.overtaken = @ \cup {op}] : w \in calls}

\* A parseCSSFile that throws at once (the file is not there) rejects without
\* waiting for the file system: the call goes on in the same turn of the event
\* loop, before any other operation.  Only a call that waits for readFile
\* stays suspended between operations.
RECURSIVE Drain(_)
Drain(S) ==
  IF \E t \in S.tasks : t.pc = "notFound"
  THEN Drain(ResumeOn(S, CHOOSE t \in S.tasks : t.pc = "notFound"))
  ELSE S

\* CSSIndex.indexComponent up to its first await (or to its end, when every
\* path is cached and fresh), with at most `most` calls suspended at a time.
IndexComponentStartsWithin(most, componentPath, cssFilePaths) ==
  LET S0 == [Engine EXCEPT !.rev = RemoveComponentFromReverseMapping(
                                     index, cssFileToComponents, componentPath)]
      S1 == Drain(Advance(S0, componentPath, cssFilePaths, 1, <<>>))
  IN /\ Cardinality(inflight) + Cardinality(S1.tasks) <= most
     /\ Install(S1)
     /\ inflight' = inflight \cup Suspend(S1.tasks, (1..most) \ {w.id : w \in inflight})
     /\ last' = [op |-> "indexComponent", path |-> componentPath,
                 requested |-> Range(cssFilePaths), deps |-> {},
                 status |-> IF S1.threw THEN "rejected"
                            ELSE IF S1.tasks # {} THEN "pending" ELSE "resolved"]
     /\ UNCHANGED fsVars
IndexComponentStarts(componentPath, cssFilePaths) ==
  IndexComponentStartsWithin(MaxInFlight, componentPath, cssFilePaths)

\* CSSIndex.updateCSSFile up to `await Promise.allSettled`: the cache entry is
\* dropped and indexComponent is called for each indexed dependent; what
\* follows the await writes nothing.
UpdateCSSFileStarts(filePath) ==
  LET S0 == [Engine EXCEPT !.fileCache = MapDelete(fileCache, filePath)]
      S1 == Drain(FanOut(S0, Dependents(filePath)))
  IN /\ Cardinality(inflight) + Cardinality(S1.tasks) <= MaxInFlight
     /\ Install(S1)
     /\ inflight' = inflight \cup Suspend(S1.tasks, FreeIds)
     /\ last' = [op |-> "updateCSSFile", path |-> filePath, requested |-> {},
                 deps |-> Dependents(filePath) \cap DOMAIN index,
                 status |-> IF S1.tasks # {} THEN "pending" ELSE "resolved"]
     /\ UNCHANGED fsVars

\* fs.promises.readFile of the suspended call w delivers: the content the
\* file has at that moment, or an error when the file is gone.
ReadFileSettles(w) ==
  /\ w.task.pc = "readFile" /\ w.read = <<>>
  /\ LET p == w.task.cssFilePaths[w.task.at]
     IN inflight' = (inflight \ {w}) \cup
          {IF disk[p].exists THEN [w EXCEPT !.read = <<disk[p].content>>]
           ELSE [w EXCEPT !.task.pc = "readFailed"]}
  /\ last' = [op |-> "readFile", path |-> w.task.componentPath, requested |-> {},
              deps |-> {}, status |-> "resolved"]
  /\ parsed' = <<>>
  /\ UNCHANGED <<index, fileCache, cssFileToComponents, fsVars>>

\* A continuation that takes a file another call cached meanwhile as done,
\* and leaves it out of its own cssFiles.
ContinuationSkipsCached(S, w) ==
  LET t == w.task
      p == t.cssFilePaths[t.at]
      ok == w.read # <<>> /\ p \notin DOMAIN S.fileCache
      cssFile == ParseCSSContent(w.read[1], p)
      S0 == IF ok THEN [S EXCEPT !.fileCache = MapSet(@, p, cssFile),
                                 !.rev = RevAdd(@, p, t.componentPath)]
            ELSE S
      files == IF ok THEN CssFilesSet(t.cssFiles, cssFile) ELSE t.cssFiles
  IN Advance(S0, t.componentPath, t.cssFilePaths, t.at + 1, files)
\* The suspended call w goes on after its await: parseCSSContent builds the
\* CSSFile from the content that was read and stamps it with the mtime the
\* file has now; the file is cached, recorded and added to the reverse map
\* (a failed parse is skipped), and the loop runs to the next await or to the
\* end of the call.
Continuation(S, w) ==
  LET t == w.task
      p == t.cssFilePaths[t.at]
      ok == w.read # <<>>
      cssFile == ParseCSSContent(w.read[1], p)
      S0 == IF ok THEN [S EXCEPT !.fileCache = MapSet(@, p, cssFile),
                                 !.rev = RevAdd(@, p, t.componentPath)]
            ELSE S
      files == IF ok THEN CssFilesSet(t.cssFiles, cssFile) ELSE t.cssFiles
  IN Advance(S0, t.componentPath, t.cssFilePaths, t.at + 1, files)
Continues(w) ==
  /\ w.read # <<>> \/ w.task.pc = "readFailed"
  /\ \E S1 \in {Drain(Continuation(Engine, w))} :
        /\ Install(S1)
        /\ inflight' = (inflight \ {w}) \cup
             {[w EXCEPT !.task = t, !.read = <<>>] : t \in S1.tasks}
        /\ last' = [op |-> "continuation", path |-> w.task.componentPath,
                    requested |-> Range(w.task.cssFilePaths), deps |-> w.overtaken,
                    status |-> IF S1.threw THEN "rejected"
                               ELSE IF S1.tasks # {} THEN "pending" ELSE "resolved"]
  /\ UNCHANGED fsVars

\* The operations, the deliveries of the file system and the continuations of
\* the suspended calls, in any order, for the open component file, on a disk
\* that no other process writes.
NextInterleaved ==
  \/ \E c \in WatchedComponents, l \in PathLists :
       IndexComponentStarts(c, l)
         /\ UNCHANGED <<imports, watch, timerVars, cancelled, call, ret, waiting, heap>>
  \/ \E f \in CssPaths :
       UpdateCSSFileStarts(f)
         /\ UNCHANGED <<imports, watch, timerVars, cancelled, call, ret, waiting, heap>>
  \/ \E w \in inflight :
       ReadFileSettles(w)
         /\ UNCHANGED <<imports, watch, timerVars, cancelled, call, ret, waiting, heap>>
  \/ \E w \in inflight :
       Continues(w)
         /\ UNCHANGED <<imports, watch, timerVars, cancelled, call, ret, waiting, heap>>
  \/ \E f \in CssPaths :
       RemoveCSSFile(f)
         /\ inflight' = (inflight \ {w \in inflight : w.task.componentPath \in Dependents(f)})
              \cup Overtake({w \in inflight : w.task.componentPath \in Dependents(f)},
                            "removeCSSFile")
         /\ UNCHANGED <<imports, watch, timerVars, cancelled, call, ret, waiting, heap>>
  \/ \E c \in WatchedComponents :
       HandleComponentChange(c)
         /\ inflight' = (inflight \ {w \in inflight : w.task.componentPath = c})
              \cup Overtake({w \in inflight : w.task.componentPath = c},
                            "handleComponentChange")
         /\ UNCHANGED <<imports, watch, timerVars, cancelled, call, ret, waiting, heap>>
  \/ Clear /\ inflight' = Overtake(inflight, "clear")
           /\ UNCHANGED <<imports, watch, call, ret, waiting, heap>>

SpecInterleaved == Init /\ [][NextInterleaved]_vars

\* The calls of indexComponent for the open component file while another
\* process writes and deletes the CSS files.
NextRace ==
  \/ \E c \in WatchedComponents, l \in PathLists :
       IndexComponentStarts(c, l)
         /\ UNCHANGED <<imports, watch, timerVars, cancelled, call, ret, waiting, heap>>
  \/ \E w \in inflight :
       ReadFileSettles(w)
         /\ UNCHANGED <<imports, watch, timerVars, cancelled, call, ret, waiting, heap>>
  \/ \E w \in inflight :
       Continues(w)
         /\ UNCHANGED <<imports, watch, timerVars, cancelled, call, ret, waiting, heap>>
  \/ \E f \in CssPaths, k \in Contents :
       FsWrite(f, k) /\ UNCHANGED <<imports, watch, cancelled, restVars>>
  \/ \E f \in CssPaths : FsDelete(f) /\ UNCHANGED <<imports, watch, cancelled, restVars>>

SpecRace == Init /\ [][NextRace]_vars

\* Redundant calls: indexComponent is called for the open component file, and
\* called again with the same paths while the earlier calls wait for the file
\* system; the CSS files change only while no call is in flight.  `call` keeps
\* the arguments of the calls of the round and whether calls overlapped, `ret`
\* the index entry, file cache and reverse map a call that runs alone from the
\* state the round started in ends with.
Alone(componentPath, cssFilePaths) ==
  LET S0 == [Engine EXCEPT !.rev = RemoveComponentFromReverseMapping(
                                     index, cssFileToComponents, componentPath)]
      S2 == CHOOSE S \in Outcomes(Advance(S0, componentPath, cssFilePaths, 1, <<>>)) : TRUE
  IN [index |-> S2.index, fileCache |-> S2.fileCache, rev |-> S2.rev]
NextRedundant ==
  \/ \E c \in WatchedComponents, l \in PathLists :
       /\ inflight = {}
       /\ IndexComponentStartsWithin(MaxOverlap, c, l)
       /\ call' = [componentPath |-> c, cssFilePaths |-> l, overlapped |-> FALSE]
       /\ ret' = Alone(c, l)
       /\ UNCHANGED <<imports, watch, timerVars, cancelled, waiting, heap>>
  \/ /\ inflight # {}
     /\ IndexComponentStartsWithin(MaxOverlap, call.componentPath, call.cssFilePaths)
     /\ call' = [call EXCEPT !.overlapped = TRUE]
     /\ UNCHANGED <<imports, watch, timerVars, cancelled, ret, waiting, heap>>
  \/ \E w \in inflight :
       ReadFileSettles(w)
         /\ UNCHANGED <<imports, watch, timerVars, cancelled, call, ret, waiting, heap>>
  \/ \E w \in inflight :
       Continues(w)
         /\ UNCHANGED <<imports, watch, timerVars, cancelled, call, ret, waiting, heap>>
  \/ \E f \in CssPaths, k \in Contents :
       inflight = {} /\ FsWrite(f, k) /\ UNCHANGED <<imports, watch, cancelled, restVars>>
  \/ \E f \in CssPaths :
       inflight = {} /\ FsDelete(f) /\ UNCHANGED <<imports, watch, cancelled, restVars>>

SpecRedundant == Init /\ [][NextRedundant]_vars

\* ------------------------------------------------------------- fan-out
\* updateCSSFile step by step.  Its loop iterates the Set object held at
\* cssFileToComponents[filePath] while the indexComponent calls it starts
\* delete from that Set and add to it.  A Set iterator walks the entries in
\* insertion order: a deleted entry leaves a hole that is skipped, an added
\* member is appended and visited later, so a member deleted and added again
\* is visited twice.  `call` is the activation of updateCSSFile:
\*   filePath - its argument,
\*   entries  - the entries of the Set it iterates, holes included,
\*   at       - the position of the iterator,
\*   live     - whether that Set is still the one the reverse map holds,
\*   started  - the components indexComponent was called for, in order,
\*   expected - the members of the Set that were indexed when the call began,
\*   keys     - for each of them, the paths of its cssFiles at that time,
\*   pc       - "loop", "allSettled" (at the await) or "done".
Hole == "<deleted>"
Orders(S) == {o \in [1..Cardinality(S) -> S] : \A i, j \in DOMAIN o : o[i] = o[j] => i = j}

\* A fan-out that leaves the cache entry of the file in place.
UpdateCSSFileBeginsKeepsCache(filePath) ==
  /\ call = <<>>
  /\ \E order \in Orders(Dependents(filePath)) :
       call' = [filePath |-> filePath, entries |-> order, at |-> 1, live |-> TRUE,
                started |-> <<>>, expected |-> Dependents(filePath) \cap DOMAIN index,
                keys |-> [c \in Dependents(filePath) \cap DOMAIN index |->
                            Keys(index[c].cssFiles)],
                pc |-> IF order = <<>> THEN "done" ELSE "loop"]
  /\ last' = [op |-> "updateCSSFile", path |-> filePath, requested |-> {},
              deps |-> Dependents(filePath) \cap DOMAIN index,
              status |-> IF Dependents(filePath) = {} THEN "resolved" ELSE "pending"]
  /\ parsed' = <<>>
  /\ UNCHANGED <<index, fileCache, cssFileToComponents, inflight, ret, fsVars, heap>>

\* updateCSSFile up to its loop: the cache entry is dropped and the Set of
\* dependents is fetched; the call returns when there is none.
UpdateCSSFileBegins(filePath) ==
  /\ call = <<>>
  /\ fileCache' = MapDelete(fileCache, filePath)
  /\ \E order \in Orders(Dependents(filePath)) :
       call' = [filePath |-> filePath, entries |-> order, at |-> 1, live |-> TRUE,
                started |-> <<>>, expected |-> Dependents(filePath) \cap DOMAIN index,
                keys |-> [c \in Dependents(filePath) \cap DOMAIN index |->
                            Keys(index[c].cssFiles)],
                pc |-> IF order = <<>> THEN "done" ELSE "loop"]
  /\ last' = [op |-> "updateCSSFile", path |-> filePath, requested |-> {},
              deps |-> Dependents(filePath) \cap DOMAIN index,
              status |-> IF Dependents(filePath) = {} THEN "resolved" ELSE "pending"]
  /\ parsed' = <<>>
  /\ UNCHANGED <<index, cssFileToComponents, inflight, ret, fsVars, heap>>

\* One round of `for (const componentPath of components)`: a component that
\* is not indexed is passed over; for an indexed one indexComponent runs up
\* to its first await (or to its end), and what it deleted from the iterated
\* Set and added to it shows in the entries.
LoopStep ==
  /\ call # <<>> /\ call.pc = "loop" /\ call.at <= Len(call.entries)
  /\ LET c == call.entries[call.at]
         f == call.filePath
     IN IF c = Hole \/ c \notin DOMAIN index
        THEN /\ call' = [call EXCEPT !.at = @ + 1]
             /\ UNCHANGED <<index, fileCache, cssFileToComponents, parsed, inflight, last, heap>>
        ELSE \E S0 \in {[Engine EXCEPT !.rev = RemoveComponentFromReverseMapping(
                                                   index, cssFileToComponents, c)]} :
             \E S1 \in {Advance(S0, c, Keys(index[c].cssFiles), 1, <<>>)} :
             LET keys == Keys(index[c].cssFiles)
                 removed == call.live /\ f \in Range(keys)
                 emptied == removed /\ f \notin DOMAIN S0.rev
                 added == f \in DOMAIN S1.rev /\ c \in S1.rev[f]
                 e1 == IF removed THEN [call.entries EXCEPT ![call.at] = Hole]
                       ELSE call.entries
                 e2 == IF removed /\ ~emptied /\ added THEN Append(e1, c) ELSE e1
             IN /\ Install(S1)
                /\ inflight' = inflight \cup
                     Suspend(S1.tasks, (1..Cardinality(Components)) \ {w.id : w \in inflight})
                /\ call' = [call EXCEPT !.at = @ + 1, !.entries = e2,
                                        !.live = @ /\ ~emptied,
                                        !.started = Append(@, c)]
                /\ last' = [op |-> "indexComponent", path |-> c,
                            requested |-> Range(keys), deps |-> {},
                            status |-> IF S1.threw THEN "rejected"
                                       ELSE IF S1.tasks # {} THEN "pending"
                                       ELSE "resolved"]
  /\ UNCHANGED <<ret, fsVars, imports, watch, timerVars, cancelled, waiting, heap>>

\* The iterator is exhausted: updateCSSFile waits at `await Promise.allSettled`.
LoopEnds ==
  /\ call # <<>> /\ call.pc = "loop" /\ call.at > Len(call.entries)
  /\ call' = [call EXCEPT !.pc = "allSettled"]
  /\ UNCHANGED <<index, fileCache, cssFileToComponents, parsed, inflight, last, ret, fsVars,
                 imports, watch, timerVars, cancelled, waiting, heap>>

\* A rejected parse that ends the whole fan-out: the call it belongs to and
\* every other call in flight are given up.
ParseRejectsAborts(w) ==
  /\ w.task.pc = "notFound"
  /\ inflight' = {}
  /\ last' = [op |-> "continuation", path |-> w.task.componentPath,
              requested |-> Range(w.task.cssFilePaths), deps |-> w.overtaken,
              status |-> "rejected"]
  /\ parsed' = <<>>
  /\ UNCHANGED <<index, fileCache, cssFileToComponents, fsVars>>

\* The await of a parseCSSFile that found no file: the call w goes on with
\* the next path.
ParseRejects(w) ==
  /\ w.task.pc = "notFound"
  /\ \E S1 \in {Continuation(Engine, w)} :
        /\ Install(S1)
        /\ inflight' = (inflight \ {w}) \cup
             {[w EXCEPT !.task = t, !.read = <<>>] : t \in S1.tasks}
        /\ last' = [op |-> "continuation", path |-> w.task.componentPath,
                    requested |-> Range(w.task.cssFilePaths), deps |-> w.overtaken,
                    status |-> IF S1.threw THEN "rejected"
                               ELSE IF S1.tasks # {} THEN "pending" ELSE "resolved"]
  /\ UNCHANGED fsVars

\* Every promise updateCSSFile collected is settled: it resolves.
AllSettled ==
  /\ call # <<>> /\ call.pc = "allSettled" /\ inflight = {}
  /\ call' = [call EXCEPT !.pc = "done"]
  /\ ret' = "resolved"
  /\ last' = [op |-> "updateCSSFile", path |-> call.filePath, requested |-> {},
              deps |-> call.expected, status |-> "resolved"]
  /\ UNCHANGED <<index, fileCache, cssFileToComponents, parsed, inflight, fsVars,
                 imports, watch, timerVars, cancelled, waiting, heap>>

\* Components are indexed and CSS files removed and deleted, then updateCSSFile
\* is called; the callbacks of the calls its loop started run while it waits.
Callbacks ==
  /\ call # <<>> /\ call.pc = "allSettled"
  /\ \E w \in inflight : ReadFileSettles(w) \/ Continues(w) \/ ParseRejects(w)
  /\ UNCHANGED <<imports, watch, timerVars, cancelled, call, ret, waiting, heap>>
NextFanOut ==
  \/ \E f \in CssPaths :
       UpdateCSSFileBegins(f) /\ UNCHANGED <<imports, watch, timerVars, cancelled, waiting, heap>>
  \/ LoopStep
  \/ LoopEnds
  \/ Callbacks
  \/ AllSettled
  \/ \E c \in Components, l \in PathLists :
       call = <<>> /\ IndexComponent(c, l) /\ UNCHANGED <<imports, watch, timerVars, cancelled, restVars>>
  \/ \E f \in CssPaths :
       call = <<>> /\ RemoveCSSFile(f) /\ UNCHANGED <<imports, watch, timerVars, cancelled, restVars>>
  \/ \E f \in CssPaths :
       call = <<>> /\ FsDelete(f) /\ UNCHANGED <<imports, watch, cancelled, restVars>>

SpecFanOut == Init /\ [][NextFanOut]_vars
\* The event loop goes on with the synchronous code or with a callback that
\* is ready as long as there is one, and the file system answers every read.
UpdateCSSFileRuns == LoopStep \/ LoopEnds \/ Callbacks \/ AllSettled
SpecFanOutFair == SpecFanOut /\ WF_vars(UpdateCSSFileRuns)

\* ------------------------------------------------------------- objects
\* The ComponentIndex objects as objects: `heap` keeps
\*   objects - address -> the ComponentIndex that lives there (its cssFiles and
\*             allClasses as they are now),
\*   entry   - componentPath -> the address CSSIndex.index holds for it,
\*   held    - the addresses getComponentIndex has handed to a caller that
\*             still keeps them.
\* An object that neither the index nor a caller refers to is collected.
Addresses == 1..(2 * Cardinality(Components) + MaxHeld)
Restrict(m, keys) == [k \in DOMAIN m \cap keys |-> m[k]]

\* An engine that writes the new cssFiles and allClasses into the object the
\* index already holds for the path.
ConstructInPlace(constructed) ==
  LET free == Addresses \ DOMAIN heap.objects
      new == constructed \ DOMAIN heap.entry
      fresh == CHOOSE a \in [new -> free] : \A p, q \in new : a[p] = a[q] => p = q
      entry == [p \in DOMAIN index' |->
                  IF p \in new THEN fresh[p] ELSE heap.entry[p]]
      objects == [a \in DOMAIN heap.objects \cup Range(entry) |->
                    IF \E p \in constructed : entry[p] = a
                    THEN index'[CHOOSE p \in constructed : entry[p] = a]
                    ELSE heap.objects[a]]
  IN heap' = [objects |-> Restrict(objects, heap.held \cup Range(entry)),
              entry |-> entry, held |-> heap.held]

\* What an operation does to the objects: for each path in `constructed` it
\* builds a ComponentIndex at a new address (new ComponentIndex) and makes the
\* index hold that address (index.set); the entries it deletes are gone
\* (index.delete, index.clear), every other entry holds what it held.
Construct(constructed) ==
  LET free == Addresses \ DOMAIN heap.objects
      fresh == CHOOSE a \in [constructed -> free] :
                 \A p, q \in constructed : a[p] = a[q] => p = q
      entry == [p \in DOMAIN index' |->
                  IF p \in constructed THEN fresh[p] ELSE heap.entry[p]]
      objects == [a \in DOMAIN heap.objects \cup Range(fresh) |->
                    IF \E p \in constructed : fresh[p] = a
                    THEN index'[CHOOSE p \in constructed : fresh[p] = a]
                    ELSE heap.objects[a]]
  IN heap' = [objects |-> Restrict(objects, heap.held \cup Range(entry)),
              entry |-> entry, held |-> heap.held]

\* The caller of getComponentIndex keeps the object it was handed.
Hold(componentPath) ==
  /\ componentPath \in DOMAIN heap.entry =>
       (heap.entry[componentPath] \in heap.held \/ Cardinality(heap.held) < MaxHeld)
  /\ heap' = IF componentPath \in DOMAIN heap.entry
             THEN [heap EXCEPT !.held = @ \cup {heap.entry[componentPath]}]
             ELSE heap
\* A caller lets go of an object.
Release(a) ==
  /\ a \in heap.held
  /\ heap' = [objects |-> Restrict(heap.objects, (heap.held \ {a}) \cup Range(heap.entry)),
              entry |-> heap.entry, held |-> heap.held \ {a}]
  /\ UNCHANGED <<fsVars, index, fileCache, cssFileToComponents, parsed, last, imports,
                 timerVars, watch, cancelled, call, ret, waiting, inflight>>

\* The operations on the open component file, which imports one CSS file at
\* most, and on the CSS files, with a caller that asks for the component's
\* index now and then and keeps what it gets.
NextObjects ==
  \/ \E c \in WatchedComponents, l \in {m \in PathLists : Len(m) <= 1} :
       /\ IndexComponent(c, l)
       /\ Construct(IF last'.status = "resolved" THEN {c} ELSE {})
       /\ UNCHANGED <<imports, watch, timerVars, cancelled, call, ret, waiting, inflight>>
  \/ \E f \in CssPaths :
       /\ UpdateCSSFile(f)
       /\ Construct(last'.deps)
       /\ UNCHANGED <<imports, watch, timerVars, cancelled, call, ret, waiting, inflight>>
  \/ \E f \in CssPaths :
       /\ RemoveCSSFile(f)
       /\ Construct({})
       /\ UNCHANGED <<imports, watch, timerVars, cancelled, call, ret, waiting, inflight>>
  \/ \E c \in WatchedComponents :
       /\ HandleComponentChange(c)
       /\ Construct({})
       /\ UNCHANGED <<imports, watch, timerVars, cancelled, call, ret, waiting, inflight>>
  \/ Clear /\ Construct({}) /\ UNCHANGED <<imports, watch, call, ret, waiting, inflight>>
  \/ \E c \in WatchedComponents :
       GetComponentIndex(c) /\ Hold(c) /\ UNCHANGED <<imports, watch, waiting, inflight>>
  \/ \E a \in Addresses : Release(a)
  \/ \E f \in CssPaths :
       FsDelete(f) /\ UNCHANGED <<imports, watch, cancelled, restVars>>

SpecObjects == Init /\ [][NextObjects]_vars

\* ------------------------------------------------------------- properties
\* The paths of the CSS files the component index of c holds.
ImportedBy(idx, c) == Range(Keys(idx[c].cssFiles))
\* The record the component index of c holds for path f.
RecordOf(idx, c, f) ==
  idx[c].cssFiles[CHOOSE i \in 1..Len(idx[c].cssFiles) : idx[c].cssFiles[i].filePath = f]
\* The record a parse of f made now would give.
FreshParse(f) == ParseCSSContent(disk[f].content, f)

\* C1: forward reverse-map consistency.  In every state the operations reach,
\* every CSS file in the cssFiles of an indexed component lists that component
\* in cssFileToComponents.
C1_ForwardConsistency ==
  \A c \in DOMAIN index : \A f \in ImportedBy(index, c) :
    f \in DOMAIN cssFileToComponents /\ c \in cssFileToComponents[f]

\* C1's case: updateCSSFile has just re-indexed two components that share a
\* file, one of them importing a second file.
C1_Witness ==
  /\ last.op = "updateCSSFile"
  /\ Cardinality(last.deps) = 2
  /\ \A c \in last.deps : c \in DOMAIN index /\ last.path \in ImportedBy(index, c)
  /\ \E c \in last.deps : Len(index[c].cssFiles) = 2

\* C2: a CSS edit reaches every component that imports the file.  When
\* updateCSSFile(p) has completed for a file p that is on disk, every component
\* whose last import list names p is indexed with a record for p that is a parse
\* of p's current content.
C2_EditPropagates ==
  (last.op = "updateCSSFile" /\ disk[last.path].exists) =>
    \A c \in DOMAIN imports :
      last.path \in imports[c] =>
        /\ c \in DOMAIN index
        /\ last.path \in ImportedBy(index, c)
        /\ RecordOf(index, c, last.path) = FreshParse(last.path)

\* C3: multi-component fan-out.  A step of updateCSSFile(f), taken while f and
\* the files its dependents hold are on disk, leaves every component that was
\* indexed and a member of cssFileToComponents[f] with a fresh parse of f as
\* its record for f, and with its other files still in its cssFiles.
C3_FanOut ==
  [][(/\ last'.op = "updateCSSFile"
      /\ disk[last'.path].exists
      /\ \A c \in Dependents(last'.path) \cap DOMAIN index :
           \A g \in ImportedBy(index, c) : disk[g].exists)
     => \A c \in Dependents(last'.path) \cap DOMAIN index :
          /\ c \in DOMAIN index'
          /\ last'.path \in ImportedBy(index', c)
          /\ RecordOf(index', c, last'.path) = FreshParse(last'.path)
          /\ ImportedBy(index, c) \subseteq ImportedBy(index', c)]_vars

\* C4: no stale reverse-map entries.  Every component listed under a CSS file
\* in cssFileToComponents is indexed and holds that file in its cssFiles.
C4_NoStaleReverse ==
  \A f \in DOMAIN cssFileToComponents : \A c \in cssFileToComponents[f] :
    c \in DOMAIN index /\ f \in ImportedBy(index, c)

\* C5: deletion propagation.  After removeCSSFile(f), no component that was in
\* cssFileToComponents[f] is indexed, and neither the file cache nor
\* cssFileToComponents has an entry for f.
C5_DeletionPropagates ==
  last.op = "removeCSSFile" =>
    /\ \A c \in last.deps : c \notin DOMAIN index
    /\ last.path \notin DOMAIN fileCache
    /\ last.path \notin DOMAIN cssFileToComponents

\* C5's case: removeCSSFile has run on a cached file two components depended on.
C5_Witness ==
  /\ last.op = "removeCSSFile"
  /\ Cardinality(last.deps) = 2
  /\ DOMAIN fileCache # {}

\* C6: handleComponentChange(c) deletes index[c], removes c from every
\* reverse-map set it was in, and changes nothing else: no parse, the same file
\* cache, the same index entries and reverse-map memberships for the others.
C6_InvalidateOnly ==
  [][last'.op = "handleComponentChange" =>
       /\ index' = MapDelete(index, last'.path)
       /\ \A f \in DOMAIN cssFileToComponents' : last'.path \notin cssFileToComponents'[f]
       /\ \A f \in CssPaths : \A c \in Components \ {last'.path} :
            (f \in DOMAIN cssFileToComponents /\ c \in cssFileToComponents[f])
              <=> (f \in DOMAIN cssFileToComponents' /\ c \in cssFileToComponents'[f])
       /\ fileCache' = fileCache
       /\ parsed' = <<>>]_vars

\* C7: partial-failure tolerance.  indexComponent on a component file, with
\* any paths missing from disk, resolves and installs a ComponentIndex whose
\* cssFiles are exactly the requested paths that could be obtained, each with
\* its current classes, all of them present in allClasses.
C7_PartialFailure ==
  (last.op = "indexComponent" /\ last.path \in Components) =>
    /\ last.status = "resolved"
    /\ last.path \in DOMAIN index
    /\ ImportedBy(index, last.path) = {p \in last.requested : disk[p].exists}
    /\ \A p \in ImportedBy(index, last.path) :
         /\ RecordOf(index, last.path, p) = FreshParse(p)
         /\ disk[p].content \subseteq DOMAIN index[last.path].allClasses

\* C7's case: indexComponent was given a file that is on disk and one that is
\* missing, and the index holds the one on disk.
C7_Witness ==
  /\ last.op = "indexComponent"
  /\ \E p, q \in last.requested : ~disk[p].exists /\ disk[q].exists
  /\ last.path \in DOMAIN index
  /\ Len(index[last.path].cssFiles) = 1

\* C8: no public operation raises or rejects to its caller, whatever component
\* path and CSS paths it is given.
C8_NeverRaises == last.status = "resolved"

\* C9: cache-first indexing.  Every parseCSSFile call of an operation was made
\* on a path that had no cache entry, or whose file could not be stat'ed, or
\* whose live mtime differed from the cached lastModified.
C9_CacheFirst ==
  \A i \in DOMAIN parsed :
    \/ parsed[i].cached = <<>>
    \/ ~disk[parsed[i].filePath].exists
    \/ disk[parsed[i].filePath].mtimeMs # parsed[i].cached[1]

\* C9's case: a second component has indexed a file another component already
\* holds, unchanged since, and no parseCSSFile call was made.
C9_Witness ==
  /\ last.op = "indexComponent"
  /\ parsed = <<>>
  /\ last.path \in DOMAIN index
  /\ \E f \in ImportedBy(index, last.path) :
       \E c \in DOMAIN index \ {last.path} : f \in ImportedBy(index, c)

\* C10: a burst of change events for one CSS path, each within the debounce
\* window of the one before it, makes the watcher call updateCSSFile for that
\* path exactly once, and that call comes one whole window after the last
\* event of the burst, never before: while the burst waits there is exactly
\* the one timer with the rest of the window left, once the window is over the
\* one update has been made after DEBOUNCE_DELAY_MS, and a path in no burst
\* has no timer.  (A delete event and clear() end the burst of a path.)
C10_DebounceCollapse ==
  \A p \in CssPaths :
    LET pending == {t \in scheduled : t.kind = "css" /\ t.path = p}
    IN IF p \notin DOMAIN watch THEN pending = {}
       ELSE /\ Len(watch[p].updates) <= 1
            /\ \A i \in 1..Len(watch[p].updates) : watch[p].updates[i] = DEBOUNCE_DELAY_MS
            /\ IF watch[p].updates = <<>>
               THEN pending = {Timer("css", p, DEBOUNCE_DELAY_MS - watch[p].since)}
               ELSE pending = {} /\ watch[p].since = DEBOUNCE_DELAY_MS
\* A burst of several events has been answered by its one update, which
\* re-indexed a dependent component.
C10_Witness ==
  \E p \in DOMAIN watch :
    /\ watch[p].collapsed
    /\ watch[p].updates = <<DEBOUNCE_DELAY_MS>>
    /\ last.op = "updateCSSFile" /\ last.path = p /\ last.deps # {}

\* C11: clear() empties the index, the file cache and the reverse map and
\* cancels every pending timer of both timer tables: right after it the maps
\* and both tables are empty and the runtime holds no timer, so no callback
\* that was scheduled before it can fire after it.
C11_ClearCancels ==
  last.op = "clear" =>
    /\ index = EmptyMap /\ fileCache = EmptyMap /\ cssFileToComponents = EmptyMap
    /\ cssFileChangeTimers = EmptyMap /\ componentChangeTimers = EmptyMap
    /\ scheduled = {}
\* clear() has run while a CSS timer and a component timer were pending.
C11_Witness ==
  /\ last.op = "clear"
  /\ \E t, u \in cancelled : t.kind = "css" /\ u.kind = "component"

\* C12: a delete event of a CSS file is handled at once.  Right after the
\* step that handles the delete event of f, no dependent of f is indexed, f
\* has no file-cache entry, and no change timer of f is left, in the table or
\* in the runtime, that could still call updateCSSFile(f).
C12_DeleteUndebounced ==
  last.op = "removeCSSFile" =>
    /\ \A c \in last.deps : c \notin DOMAIN index
    /\ last.path \notin DOMAIN fileCache
    /\ last.path \notin DOMAIN cssFileChangeTimers
    /\ \A t \in scheduled : ~(t.kind = "css" /\ t.path = last.path)
\* The delete event of a file with a dependent came while a change timer of
\* the file was pending, and cancelled it.
C12_Witness ==
  /\ last.op = "removeCSSFile"
  /\ last.deps # {}
  /\ \E t \in cancelled : t.kind = "css" /\ t.path = last.path

\* C13: update latency.  Every change event of a CSS file that an indexed
\* component depends on is answered by the update of the dependents no later
\* than one debounce window after that event: no event of a burst, the first
\* included, waits longer than DEBOUNCE_DELAY_MS.
C13_UpdateLatency ==
  \A p \in DOMAIN waiting :
    Dependents(p) \cap DOMAIN index # {} => waiting[p] <= DEBOUNCE_DELAY_MS

C15_FirstWriterWins ==
  \A c \in DOMAIN index :
    LET given == imports[c]
        defines(i, n) == /\ given[i] \in ImportedBy(index, c)
                         /\ n \in RecordOf(index, c, given[i]).classes
    IN /\ DOMAIN index[c].allClasses =
            UNION {RecordOf(index, c, p).classes : p \in ImportedBy(index, c)}
       /\ \A n \in DOMAIN index[c].allClasses :
            \E i \in 1..Len(given) :
              /\ defines(i, n)
              /\ \A j \in 1..(i - 1) : ~defines(j, n)
              /\ index[c].allClasses[n] = [name |-> n, sourceFile |-> given[i]]
\* A component was given g.css before f.css, both define a name, and the
\* name carries the definition of g.css.
C15_Witness ==
  \E c \in DOMAIN index :
    /\ imports[c] = <<"g.css", "f.css">>
    /\ Len(index[c].cssFiles) = 2
    /\ \E n \in DOMAIN index[c].allClasses :
         /\ \A i \in 1..2 : n \in index[c].cssFiles[i].classes
         /\ index[c].allClasses[n].sourceFile = "g.css"

\* C16: getComponentIndex and getClass are pure lookups.  A step of either
\* leaves the index, the file cache, the reverse map, the timer tables and the
\* timers as they are and parses nothing; getComponentIndex(c) returns
\* index[c] or undefined, and getClass(c, n) returns index[c].allClasses[n]
\* when both exist and undefined, not an exception, otherwise.
C16_PureLookups ==
  [][last'.op \in {"getComponentIndex", "getClass"} =>
       /\ UNCHANGED <<index, fileCache, cssFileToComponents, timerVars, fsVars>>
       /\ parsed' = <<>>
       /\ last'.status = "resolved"
       /\ last'.op = "getComponentIndex" =>
            ret' = IF call'.componentPath \in DOMAIN index
                   THEN <<index[call'.componentPath]>> ELSE <<>>
       /\ last'.op = "getClass" =>
            ret' = IF /\ call'.componentPath \in DOMAIN index
                      /\ call'.className \in DOMAIN index[call'.componentPath].allClasses
                   THEN <<index[call'.componentPath].allClasses[call'.className]>>
                   ELSE <<>>]_vars
\* getClass has found a class of an indexed component while a change timer
\* was pending.
C16_Witness ==
  /\ last.op = "getClass"
  /\ ret # <<>>
  /\ cssFileChangeTimers # EmptyMap

\* The import path ./x of a file name x: a name with no separator in it that
\* is neither empty nor "." nor "..".
IsFileName(x) ==
  /\ x # <<>> /\ x # <<".">> /\ x # <<".", ".">>
  /\ \A i \in 1..Len(x) : x[i] # "/"

\* C17: resolveImportPath(importPath, componentPath) returns null whenever
\* importPath does not start with "./", contains "../", or starts with "@/"
\* or "~"; and for "./" followed by a file name x, with the path of a
\* component file, it returns dirname(componentPath)/x if that file exists
\* and null if it does not.
C17_ResolveContract ==
  last.op = "resolveImportPath" =>
    LET p == call.importPath
        x == Substring2(p)
        target == Dirname(call.componentPath) \o <<"/">> \o x
    IN /\ (\/ ~StartsWith(p, <<".", "/">>)
           \/ Includes(p, <<".", ".", "/">>)
           \/ StartsWith(p, <<"@", "/">>)
           \/ StartsWith(p, <<"~">>)) => ret = Undefined
       /\ (/\ StartsWith(p, <<".", "/">>) /\ IsFileName(x)
           /\ call.componentPath = ComponentFile)
            => ret = IF target \in DOMAIN disk /\ disk[target].exists
                     THEN Found(target) ELSE Undefined
\* ./x has been resolved to the file x beside the component.
C17_Witness ==
  /\ last.op = "resolveImportPath"
  /\ call.importPath = <<".", "/", "x">>
  /\ ret = Found(BesideComponent)

\* C18: same directory only.  Every path resolveImportPath returns lies
\* directly in the directory of the importing component.
C18_SameDirectory ==
  (last.op = "resolveImportPath" /\ ret # Undefined)
    => Dirname(ret[1]) = Dirname(call.componentPath)

\* C19: extractImportPaths never raises, and an import it cannot use hides no
\* other.  Its result holds, in the order of the source, one ImportStatement
\* for every import statement the pattern matches whose path is allowed and
\* resolves, whatever comes before or after it, and nothing else.
C19_ExtractAll ==
  last.op = "extractImportPaths" =>
    LET content == call.content
        usable(i) == /\ ImportPatternMatches(content[i])
                     /\ ~Includes(content[i], <<".", ".", "/">>)
                     /\ ResolveImportPath(content[i], call.filePath) # Undefined
        kept == {i \in 1..Len(content) : usable(i)}
    IN /\ last.status = "resolved"
       /\ Len(ret) = Cardinality(kept)
       /\ \A j \in 1..Len(ret) :
            /\ ret[j].lineNumber \in kept
            /\ ret[j].importPath = content[ret[j].lineNumber]
            /\ ret[j].resolvedPath =
                 ResolveImportPath(content[ret[j].lineNumber], call.filePath)[1]
            /\ ret[j].componentPath = call.filePath
            /\ j > 1 => ret[j - 1].lineNumber < ret[j].lineNumber
\* An import that resolves stands between one with ../ in it and one whose
\* file is not there, and is the one ImportStatement of the result.
C19_Witness ==
  /\ last.op = "extractImportPaths"
  /\ call.content = <<ParentInsideImport, SameDirImport, OtherSameDirImport>>
  /\ Len(ret) = 1
  /\ ret[1].lineNumber = 2
  /\ ret[1].resolvedPath = CssBeside

\* C20: the first-occurrence invariant of the CSS parser.  In the result of
\* extractClasses and of parseCSSContent, classes and allOccurrences have the
\* same keys, the names of the content; allOccurrences[k] is not empty and
\* lists the occurrences of k, all of them, in source order; and classes[k]
\* is the first of them.
C20_FirstOccurrence ==
  last.op \in {"extractClasses", "parseCSSContent"} =>
    LET rules == call.rules
        lines(k) == {i \in 1..Len(rules) : <<rules[i].className>> = k}
        allOccurrences == IF last.op = "parseCSSContent"
                          THEN ret.allClassOccurrences ELSE ret.allOccurrences
    IN /\ DOMAIN ret.classes = DOMAIN allOccurrences
       /\ DOMAIN ret.classes = {<<rules[i].className>> : i \in 1..Len(rules)}
       /\ \A k \in DOMAIN allOccurrences :
            LET all == allOccurrences[k]
            IN /\ all # <<>>
               /\ Len(all) = Cardinality(lines(k))
               /\ \A j \in 1..Len(all) :
                    /\ all[j].lineNumber \in lines(k)
                    /\ all[j].name = k
                    /\ all[j].fullDefinition = RuleText(rules[all[j].lineNumber])
                    /\ j > 1 => all[j - 1].lineNumber < all[j].lineNumber
               /\ ret.classes[k] = all[1]
\* parseCSSContent has parsed a file in which a class is defined twice, with
\* different blocks.
C20_Witness ==
  /\ last.op = "parseCSSContent"
  /\ \E k \in DOMAIN ret.allClassOccurrences :
       /\ Len(ret.allClassOccurrences[k]) = 2
       /\ ret.allClassOccurrences[k][1].fullDefinition # ret.allClassOccurrences[k][2].fullDefinition
       /\ ret.classes[k].sourceFile = CssBeside

\* A text that is the compound selector .a.b, its brace, whitespace or not
\* between them, and a rest with no further class token.
CompoundSelector(text) ==
  /\ Len(text) >= 5
  /\ SubSeq(text, 1, 4) = <<".", "a", ".", "b">>
  /\ LET brace == SkipWhitespace(text, 5)
     IN brace <= Len(text) /\ text[brace] = "{"
  /\ \A i \in 5..Len(text) : text[i] # "."
Occurrences(result) ==
  IF last.op = "parseCSSContent" THEN result.allClassOccurrences
  ELSE result.allOccurrences

LinesOfClassTokens(text) ==
  {1 + Cardinality({j \in 1..(i - 1) : text[j] = "\n"}) :
     i \in {i \in 1..(Len(text) - 1) : text[i] = "." /\ text[i + 1] \in NameStart}}

\* C22: the lineNumber of every class occurrence is the line, counted from 1,
\* of the text given to the parser on which a class selector starts, with
\* comments before it or not.
C22_LineOfSelector ==
  last.op \in {"extractClasses", "parseCSSContent"} =>
    \A k \in DOMAIN Occurrences(ret) :
      \A j \in 1..Len(Occurrences(ret)[k]) :
        Occurrences(ret)[k][j].lineNumber \in LinesOfClassTokens(call.cssContent)

\* The diagnostics published for the class name of one word w.
DiagnosticsFor(w) == {i \in 1..Len(ret) : ret[i].className = <<w>>}
TokensOf(w) == {i \in 1..Len(call.document.words) : call.document.words[i] = w}

\* C23: for a document with at least one resolvable CSS import,
\* updateDiagnostics publishes one diagnostic of Information severity for
\* every class-name token of valid format, of every styleName attribute value
\* of the document, that the index of the component does not have, and none
\* for a token the index has.
C23_OnePerAbsentToken ==
  (/\ last.op = "updateDiagnostics"
   /\ call.document.languageId \in ReactLanguageIds
   /\ call.document.imports # <<>>
   /\ call.componentPath \in DOMAIN index)
    => /\ \A i \in 1..Len(ret) : ret[i].severity = "Information"
       /\ \A w \in Words :
            Cardinality(DiagnosticsFor(w)) =
              IF IsValidClassName(<<w>>) /\ w \notin DOMAIN index[call.componentPath].allClasses
              THEN Cardinality(TokensOf(w)) ELSE 0

\* C24: with the cursor in the value of a styleName attribute, completion
\* returns one item for every class name of the index of the component that
\* is not among the words typed in the value before the cursor, no two items
\* with the same label, and no item for a word that is.
C24_OneItemPerClass ==
  (/\ last.op = "provideCompletionItems"
   /\ call.document.inValue
   /\ call.document.imports # <<>>)
    => /\ ret # Undefined
       /\ LET items == ret[1]
              typed == Range(SplitWords(call.document.typed, 1, <<>>))
              expected == DOMAIN index[call.document.fsPath].allClasses \ typed
          IN /\ {items[i].label : i \in 1..Len(items)} = expected
             /\ Len(items) = Cardinality(expected)

\* C25: whenever no indexComponent call is in flight, every CSS file of the
\* index of a component has the component in its reverse-map set, whatever
\* ran while a call was suspended.
C25_ForwardConsistencyInterleaved ==
  inflight = {} =>
    \A c \in DOMAIN index : \A f \in Range(Keys(index[c].cssFiles)) :
      f \in DOMAIN cssFileToComponents /\ c \in cssFileToComponents[f]

\* C26: an indexComponent call that was suspended when handleComponentChange
\* of its component, or removeCSSFile of a file its component depends on, ran
\* installs no index when it goes on: the index of the component stays as the
\* invalidation and the calls started after it left it.
C26_InvalidationHolds ==
  [][\A w \in inflight :
       (/\ w.overtaken \cap {"handleComponentChange", "removeCSSFile"} # {}
        /\ w \notin inflight'
        /\ last'.op = "continuation")
         => index' = index]_vars

\* C27: what a call that was in flight when clear() ran does when it goes on
\* writes neither into the index nor into the file cache nor into the reverse
\* map.
C27_ClearIsFinal ==
  [][\A w \in inflight :
       (/\ "clear" \in w.overtaken
        /\ w \notin inflight'
        /\ last'.op = "continuation")
         => UNCHANGED <<index, fileCache, cssFileToComponents>>]_vars

\* C29: a cached record whose lastModified is the mtime its file has now (so
\* that isStale calls it fresh) holds the classes of the content the file has
\* now, also when the file was written while a parse of it was in flight.
C29_SameVersion ==
  \A f \in DOMAIN fileCache :
    ~IsStale(fileCache, f) => fileCache[f].classes = disk[f].content

\* C28: when a component that was indexed with the paths S (and not
\* invalidated since) is indexed again with the paths S', and the call
\* completes, the component is afterwards in the reverse-map set of no path
\* of S that is not in S', and in the set of every path of its new cssFiles.
C28_RemoveThenAdd ==
  [][\A c \in Components :
       (/\ c \in DOMAIN imports
        /\ last'.op = "indexComponent" /\ last'.path = c /\ last'.status = "resolved")
         => /\ \A f \in imports[c] \ last'.requested :
                 f \in DOMAIN cssFileToComponents' => c \notin cssFileToComponents'[f]
            /\ \A f \in Range(Keys(index'[c].cssFiles)) :
                 f \in DOMAIN cssFileToComponents' /\ c \in cssFileToComponents'[f]]_vars

\* C30: whenever the file cache holds a record for a CSS file, every indexed
\* component that has the file in its cssFiles holds that very record.
C30_CacheIndexCoherence ==
  \A f \in DOMAIN fileCache : \A c \in DOMAIN index :
    \A i \in 1..Len(index[c].cssFiles) :
      index[c].cssFiles[i].filePath = f => index[c].cssFiles[i] = fileCache[f]

\* C31: when indexComponent calls for the same component with the same list of
\* paths overlap and no CSS file changes meanwhile, then once all of them are
\* done the index, the file cache and the reverse map are those a single call
\* would have left.
C31_RedundantCallsBenign ==
  (call # <<>> /\ inflight = {}) =>
     [index |-> index, fileCache |-> fileCache, rev |-> cssFileToComponents] = ret
C31_Witness ==
  /\ call # <<>> /\ call.overlapped /\ inflight = {}
  /\ last.op = "continuation"
  /\ call.componentPath \in DOMAIN index
  /\ Len(index[call.componentPath].cssFiles) = 2

\* C32: updateCSSFile comes to its end, and by then it has called
\* indexComponent exactly once for each component that was in the Set of the
\* file and indexed when it was called, and for no other.
C32_StartedOnce ==
  (call # <<>> /\ call.pc \in {"allSettled", "done"}) =>
     /\ Range(call.started) = call.expected
     /\ Len(call.started) = Cardinality(call.expected)
C32_NoSecondVisit ==
  call # <<>> => \A i, j \in DOMAIN call.started : call.started[i] = call.started[j] => i = j
C32_FanOutTerminates ==
  /\ [](C32_StartedOnce /\ C32_NoSecondVisit)
  /\ ((call # <<>> /\ call.pc = "loop") ~> (call # <<>> /\ call.pc = "done"))
C32_Witness ==
  /\ call # <<>> /\ call.pc = "done"
  /\ Len(call.started) = 2
  /\ Hole \in Range(call.entries)
  /\ call.filePath \in DOMAIN cssFileToComponents
  /\ cssFileToComponents[call.filePath] = call.expected

\* The timers of one kind the runtime holds for a path, and the one a table
\* records for it.
LiveIn(timers, kind, path) == {t \in timers : t.kind = kind /\ t.path = path}
Live(kind, path) == LiveIn(scheduled, kind, path)
Recorded(kind, table, path) ==
  IF path \in DOMAIN table THEN {Timer(kind, path, table[path])} ELSE {}

\* C33: in each of the two timer tables every path has at most one live
\* timer, and it is the one the table records for the path; the handler of a
\* new event for the path cancels that timer and puts a new one with the whole
\* window in its place; a timer that fires takes its own entry out of the
\* table.
C33_OneTimerPerPath ==
  /\ \A p \in CssPaths :
       /\ Cardinality(Live("css", p)) <= 1
       /\ Live("css", p) = Recorded("css", cssFileChangeTimers, p)
  /\ \A c \in Components :
       /\ Cardinality(Live("component", c)) <= 1
       /\ Live("component", c) = Recorded("component", componentChangeTimers, c)
  /\ \A t \in scheduled : t.kind \in {"css", "component"}
C33_EventReplaces ==
  /\ last'.op = "handleCSSFileChange" =>
       /\ LiveIn(scheduled', "css", last'.path) = {Timer("css", last'.path, DEBOUNCE_DELAY_MS)}
       /\ cancelled' = Live("css", last'.path)
       /\ cssFileChangeTimers'[last'.path] = DEBOUNCE_DELAY_MS
  /\ last'.op = "handleComponentFileChange" =>
       /\ LiveIn(scheduled', "component", last'.path) = {Timer("component", last'.path, DEBOUNCE_DELAY_MS)}
       /\ cancelled' = Live("component", last'.path)
       /\ componentChangeTimers'[last'.path] = DEBOUNCE_DELAY_MS
C33_FiringRemoves ==
  /\ last'.op = "updateCSSFile" =>
       /\ Live("css", last'.path) = {Timer("css", last'.path, 0)}
       /\ last'.path \notin DOMAIN cssFileChangeTimers'
       /\ LiveIn(scheduled', "css", last'.path) = {}
  /\ last'.op = "handleComponentChange" =>
       /\ Live("component", last'.path) = {Timer("component", last'.path, 0)}
       /\ last'.path \notin DOMAIN componentChangeTimers'
       /\ LiveIn(scheduled', "component", last'.path) = {}
C33_TimerTables ==
  /\ []C33_OneTimerPerPath
  /\ [][C33_EventReplaces /\ C33_FiringRemoves]_vars
\* A change event of a CSS file came while the timer of an earlier event of
\* that file was running, with a component timer pending as well.
C33_Witness ==
  /\ last.op = "handleCSSFileChange"
  /\ \E t \in cancelled : t.kind = "css" /\ t.path = last.path /\ t.remaining < DEBOUNCE_DELAY_MS
  /\ componentChangeTimers # EmptyMap
  /\ Cardinality(scheduled) = 3

\* C34: the handler of a change, create or delete event of a path leaves the
\* pending timers of every other path as they are, in the runtime and in the
\* tables; the handler of a CSS-file event cancels and sets no component
\* timer, and the handler of a component-file event no CSS timer.
OtherTimersKept(kind, path) ==
  /\ \A t \in scheduled \cup scheduled' \cup cancelled' :
       (t.kind # kind \/ t.path # path) => (t \in scheduled /\ t \in scheduled')
  /\ \A q \in DOMAIN cssFileChangeTimers \cup DOMAIN cssFileChangeTimers' :
       (kind # "css" \/ q # path) =>
          /\ q \in DOMAIN cssFileChangeTimers /\ q \in DOMAIN cssFileChangeTimers'
          /\ cssFileChangeTimers'[q] = cssFileChangeTimers[q]
  /\ \A q \in DOMAIN componentChangeTimers \cup DOMAIN componentChangeTimers' :
       (kind # "component" \/ q # path) =>
          /\ q \in DOMAIN componentChangeTimers /\ q \in DOMAIN componentChangeTimers'
          /\ componentChangeTimers'[q] = componentChangeTimers[q]
EventFrame ==
  /\ last'.op \in {"handleCSSFileChange", "removeCSSFile"} =>
       OtherTimersKept("css", last'.path)
  /\ last'.op = "handleComponentFileChange" =>
       OtherTimersKept("component", last'.path)
C34_NoCrossPathCancellation == [][EventFrame]_vars
\* An event of a component file replaced the timer of that file while the
\* timers of the other component file and of a CSS file were running.
C34_Witness ==
  /\ last.op = "handleComponentFileChange"
  /\ \E t \in cancelled : t.kind = "component" /\ t.path = last.path
  /\ \E t \in scheduled : t.kind = "component" /\ t.path # last.path
                            /\ t.remaining < DEBOUNCE_DELAY_MS
  /\ \E t \in scheduled : t.kind = "css"

\* C35: when the re-index of one dependent of f meets a failure during
\* updateCSSFile(f) (a CSS file of that component cannot be parsed), every
\* dependent of f that was indexed has been re-indexed all the same by the
\* time updateCSSFile is done: indexComponent was called for it, its index
\* entry holds exactly those of its files that are there, each as the file
\* cache holds it; and updateCSSFile resolves.
FailedIn(c) == \E k \in Range(call.keys[c]) : ~disk[k].exists
Reindexed(c) ==
  /\ c \in Range(call.started)
  /\ c \in DOMAIN index
  /\ Keys(index[c].cssFiles) = SelectSeq(call.keys[c], LAMBDA k : disk[k].exists)
  /\ \A i \in DOMAIN index[c].cssFiles :
       /\ index[c].cssFiles[i].filePath \in DOMAIN fileCache
       /\ index[c].cssFiles[i] = fileCache[index[c].cssFiles[i].filePath]
C35_FailureIsolation ==
  (call # <<>> /\ call.pc = "done" /\ \E c \in call.expected : FailedIn(c)) =>
     /\ \A d \in call.expected : Reindexed(d)
     /\ ret = "resolved"
\* updateCSSFile is done for a file with two indexed dependents, one of which
\* imports a file that is gone while the other imports none that is.
C35_Witness ==
  /\ call # <<>> /\ call.pc = "done" /\ ret = "resolved"
  /\ \E c, d \in call.expected :
       /\ FailedIn(c) /\ ~FailedIn(d)
       /\ call.filePath \in Range(call.keys[d])
       /\ Reindexed(d)

\* C36: a ComponentIndex is replaced, never changed.  The object a caller got
\* from getComponentIndex has the same cssFiles and allClasses after every
\* later indexComponent, updateCSSFile, removeCSSFile, handleComponentChange
\* and clear, for as long as the caller keeps it; what those operations change
\* is which object the index holds for a path, and that object is the
\* component's index.
EntriesAreTheIndex ==
  /\ DOMAIN heap.entry = DOMAIN index
  /\ \A p \in DOMAIN index :
       heap.entry[p] \in DOMAIN heap.objects /\ heap.objects[heap.entry[p]] = index[p]
HeldKept ==
  \A a \in heap.held \cap heap'.held :
    a \in DOMAIN heap'.objects /\ heap'.objects[a] = heap.objects[a]
C36_ReplacedNeverMutated == []EntriesAreTheIndex /\ [][HeldKept]_vars
\* A caller keeps the index object of a component that has been indexed again
\* since: the index holds another object, with other cssFiles.
C36_Witness ==
  \E a \in heap.held :
    LET p == heap.objects[a].componentPath
    IN /\ p \in DOMAIN heap.entry
       /\ heap.entry[p] # a
       /\ heap.objects[heap.entry[p]].cssFiles # heap.objects[a].cssFiles
       /\ heap.objects[heap.entry[p]].allClasses # heap.objects[a].allClasses
       /\ last.op = "updateCSSFile"

\* C37: the ImportStatement constructor throws when importPath does not
\* start with "./" or holds "../", when resolvedPath or componentPath is not
\* absolute, and when lineNumber is less than 1; on every other input it
\* returns the statement.
C37_ConstructionValidates ==
  last.op = "ImportStatement" =>
    (ret = "throws" <=>
       \/ ~StartsWith(call.importPath, <<".", "/">>)
       \/ Includes(call.importPath, <<".", ".", "/">>)
       \/ ~IsAbsolute(call.resolvedPath)
       \/ ~IsAbsolute(call.componentPath)
       \/ call.lineNumber < 1)

\* C38: isInStyleNameAttribute returns true exactly when the cursor is
\* behind the opening quote of the value of a styleName attribute of the line
\* and not behind the quote that closes that value (which may be missing
\* yet), whichever of the styleName attributes of the line that is.
\* The attributes of a line, from position i on: each begins where
\* styleName, the equals sign and a quote stand, and its value runs from that
\* quote to the next quote of the same kind, or to the end of the line.
ClosingQuote(text, quote) ==
  LET closes == {k \in (quote + 1)..Len(text) : text[k] = text[quote]}
  IN IF closes = {} THEN 0 ELSE Least(closes)
RECURSIVE InSomeValue(_, _, _)
InSomeValue(text, offset, i) ==
  LET starts == {j \in i..Len(text) : OpeningQuoteAt(text, j) # 0}
      quote == OpeningQuoteAt(text, Least(starts))
      closing == ClosingQuote(text, quote)
  IN IF starts = {} THEN FALSE
     ELSE IF offset >= quote /\ (closing = 0 \/ offset < closing) THEN TRUE
     ELSE IF closing = 0 THEN FALSE
     ELSE InSomeValue(text, offset, closing + 1)
C38_AttributeContext ==
  last.op = "isInStyleNameAttribute" => (ret <=> InSomeValue(call.text, call.offset, 1))
====
